---- MODULE Spec2Model ----
(***************************************************************************)
(* Learn_Better backend: the document lifecycle (routers/documents.py),    *)
(* the calibration and agent settings (routers/cognitive.py,               *)
(* routers/goals.py) and the goals / focus sessions (routers/goals.py).    *)
(*                                                                         *)
(* Scheduling: every handler and background task of routers/documents.py   *)
(* is an async function of one event loop, so a coroutine runs without     *)
(* interruption from one await to the next.  The relational database is    *)
(* taken to be available: its calls return.  File conversion, document     *)
(* analysis, the ingestion pipeline, the notebook sync and file removal    *)
(* are external operations that either return or raise.                    *)
(***************************************************************************)
EXTENDS Integers, Sequences, FiniteSets, TLC

VARIABLES
    doc,            \* the Document row (one document is followed)
    file_exists,    \* whether the stored file is on disk
    tasks,          \* the background tasks scheduled so far, in scheduling order
    loop,           \* index of the task that holds the event loop, 0 when idle
    resp,           \* the last HTTP response of the documents router
    last,           \* history: the step taken last, the task taking it, its error
    text_committed, \* history: a Phase 1 run has committed a non-empty extracted_text
    writer,         \* history: the task that wrote the row last, 0 for a request
    us,             \* the UserSettings row of the default user
    us_prev,        \* history: the row as the last settings request found it
    req,            \* history: the last settings request
    nreq,           \* number of settings requests served
    goals,          \* the Goal rows, by id
    sessions,       \* the FocusSession rows, by id
    now,            \* the clock, in half days
    goal_resp,      \* the GoalResponse the last step returned, if it returned one
    nends,          \* number of end-session requests served
    chunked,        \* the last chunk_content call: its input and the chunks returned
    files,          \* the suffixes of the files on disk
    converted,      \* the last convert_to_markdown call: its path, what it found, its result
    engine,         \* the ingestion engine's current operation: position, schema, event log
    graph,          \* the graph store: the number of Concept nodes under each name
    batch,          \* the store_concepts_batch call of each caller
    ever_stored,    \* history: the normalized names store_concepts_batch has merged
    column_width,   \* learning_chunks.embedding: 0 for `vector`, N for `vector(N)`
    model_dim,      \* the length of the vectors the configured embedding model returns, 0 before deployment
    expected_vector_dim,  \* VectorStorage._expected_vector_dim, 0 for None
    rows,           \* the rows of learning_chunks, in insertion order
    call,           \* the last call of VectorStorage that has finished, and its outcome
    pending,        \* the store_chunks_batch call in progress
    user_progress,  \* UserProgressTracker: each user's state of each concept
    nav,            \* the last request to /api/progress/start or /complete, and its answer
    images,         \* the DocumentImage rows of the document: caption in the session, and committed
    captioning,     \* the caption_images call: position, images tried, images failed
    shot,           \* the last answer of POST /api/goals/agent/tools/screenshot
    episodic,       \* the number of episodic memory entries saved
    intel,          \* the last get_active_intel call: the LLM's answer and what was returned
    quiz,           \* the quiz tables and the last answer of POST /{id}/quiz/grade
    link_req,       \* the POST /youtube and POST /link requests: the rows they created
    embeds          \* the embedding tasks of one store_chunks_batch call and their semaphore

docVars == <<doc, file_exists, tasks, loop, resp, last, text_committed, writer>>

settingsVars == <<us, us_prev, req, nreq>>

goalVars == <<goals, sessions, now, goal_resp, nends>>

chunkVars == <<chunked>>

conversionVars == <<files, converted>>

engineVars == <<engine>>

graphVars == <<graph, batch, ever_stored>>

vectorVars == <<column_width, model_dim, expected_vector_dim, rows, call, pending>>

ingestVars == <<chunkVars, conversionVars, engineVars, graphVars, vectorVars>>

navigationVars == <<user_progress, nav>>

sideVars == <<images, captioning, shot, episodic>>

extraVars == <<intel, quiz, link_req, embeds>>

vars == <<docVars, settingsVars, goalVars, ingestVars, navigationVars, sideVars, extraVars>>

exceptChunking == <<docVars, settingsVars, goalVars, conversionVars, engineVars, graphVars,
    vectorVars, navigationVars, sideVars, extraVars>>

exceptConversion == <<docVars, settingsVars, goalVars, chunkVars, engineVars, graphVars,
    vectorVars, navigationVars, sideVars, extraVars>>

exceptEngine == <<docVars, settingsVars, goalVars, chunkVars, conversionVars, graphVars,
    vectorVars, navigationVars, sideVars, extraVars>>

exceptGraph == <<docVars, settingsVars, goalVars, chunkVars, conversionVars, engineVars,
    vectorVars, navigationVars, sideVars, extraVars>>

exceptVector == <<docVars, settingsVars, goalVars, chunkVars, conversionVars, engineVars,
    graphVars, navigationVars, sideVars, extraVars>>

exceptNavigation == <<docVars, settingsVars, goalVars, ingestVars, sideVars, extraVars>>

exceptSide == <<settingsVars, goalVars, ingestVars, navigationVars, extraVars>>

exceptTutor == <<docVars, settingsVars, goalVars, ingestVars, navigationVars, sideVars,
    quiz, link_req, embeds>>

exceptQuiz == <<docVars, settingsVars, goalVars, ingestVars, navigationVars, sideVars,
    intel, link_req, embeds>>

exceptEmbeds == <<docVars, settingsVars, goalVars, ingestVars, navigationVars, sideVars,
    intel, quiz, link_req>>

exceptLink == <<docVars, settingsVars, goalVars, ingestVars, navigationVars, sideVars,
    intel, quiz, embeds>>

-----------------------------------------------------------------------------
(* Bounds *)

MaxTasks == 3

MaxRequests == 2

MaxGoals == 1

MaxSessions == 1

MaxEnds == 2

MaxNow == 3

MaxLen == 7

MaxChunkSize == 3

MaxFiles == 2

MaxPrereqs == 1

MaxCallers == 2

MaxBatch == 2

MaxRows == 2

MaxChunks == 2

MaxUsers == 2

MaxImages == 2

MaxMemories == 2

MaxResponse == 6

MaxGather == 5

MaxItems == 1

MaxAttempts == 2

MaxLinkRequests == 2

-----------------------------------------------------------------------------
(* Values *)

NoText == "<None>"

Falsy(t) == t \in {NoText, ""}

Extensions == {".pdf", ".png", ".txt", ".xyz"}

SUPPORTED_FORMATS == {".pdf", ".docx", ".html", ".htm", ".md", ".txt"}

PipelineErrors == {"llm unavailable", "invalid graph"}

ProgressSteps == {"storing_chunks", "extracting_graph"}

ExtractionFailedText(e) == "Extraction Failed: " \o e

FailedStep(e) == "Failed: " \o e

NoDoc ==
    [exists |-> FALSE, status |-> "", ingestion_step |-> "", ingestion_progress |-> 0,
     extracted_text |-> NoText, file_path |-> "", ext |-> ""]

NoResp == [op |-> "", code |-> 0]

NoLast == [op |-> "", task |-> 0, origin |-> "", err |-> ""]

Step(op, t, origin, e) == [op |-> op, task |-> t, origin |-> origin, err |-> e]

Task(kind, origin, ftype) ==
    [kind |-> kind, pc |-> "queued", origin |-> origin, ftype |-> ftype]

TaskIds == 1..Len(tasks)

SetPc(t, pc) == [tasks EXCEPT ![t].pc = pc]

-----------------------------------------------------------------------------
(* DocumentStore.save_document: the file is written and the row created *)

SaveDocument(ext) ==
    [exists |-> TRUE, status |-> "processing", ingestion_step |-> "",
     ingestion_progress |-> 0, extracted_text |-> NoText,
     file_path |-> "uploads/doc", ext |-> ext]

(* DocumentProcessor.convert_to_markdown: what a call returns or raises *)
Return(text) == [ok |-> TRUE, text |-> text, err |-> ""]

Raise(e) == [ok |-> FALSE, text |-> "", err |-> e]

(* Path(file_path).suffix values, and str.lower() on them *)
Suffixes ==
    {".pdf", ".PDF", ".docx", ".Docx", ".html", ".htm", ".md", ".MD", ".txt", ".TXT",
     ".png", ".xyz", ".doc", ""}

Lower(suffix) ==
    CASE suffix = ".PDF" -> ".pdf"
      [] suffix = ".Docx" -> ".docx"
      [] suffix = ".MD" -> ".md"
      [] suffix = ".TXT" -> ".txt"
      [] OTHER -> suffix

(* variant: the extension check made before the existence check *)
ConvertToMarkdownSuffixFirst(ext, exists) ==
    IF Lower(ext) \notin SUPPORTED_FORMATS THEN {Raise("Unsupported file format")}
    ELSE IF ~exists THEN {Raise("File not found")}
    ELSE {Return("markdown"), Return("")}

ConvertToMarkdown(ext, exists) ==
    IF ~exists THEN {Raise("File not found")}
    ELSE IF Lower(ext) \notin SUPPORTED_FORMATS THEN {Raise("Unsupported file format")}
    ELSE {Return("markdown"), Return("")}

-----------------------------------------------------------------------------
(* POST /api/documents/upload *)

UploadOutcomes == {"too_large", "save_fails", "fails_after_save", "ok"}

(* variant: the except branch without the os.remove call *)
CleanupSkipped(on_disk, rm_ok) == on_disk

(* the except branch: os.remove on the saved file, its own failure only printed *)
CleanupOrphan(on_disk, rm_ok) == on_disk /\ ~rm_ok

UploadFileType(ext) ==
    IF ext = ".pdf" THEN "PDF" ELSE IF ext = ".png" THEN "IMAGE" ELSE "OTHER"

Upload(ext, outcome, rm_ok) ==
    /\ loop = 0
    /\ ~doc.exists
    /\ Len(tasks) < MaxTasks
    /\ UNCHANGED <<text_committed, loop, writer>>
    /\ CASE outcome = "too_large" ->
              /\ resp' = [op |-> "upload", code |-> 400]
              /\ last' = Step("upload", 0, "", "")
              /\ UNCHANGED <<doc, file_exists, tasks>>
         [] outcome = "save_fails" ->
              /\ resp' = [op |-> "upload", code |-> 500]
              /\ last' = Step("upload", 0, "", "save failed")
              /\ UNCHANGED <<doc, file_exists, tasks>>
         [] outcome = "fails_after_save" ->
              /\ doc' = SaveDocument(ext)
              /\ file_exists' = CleanupOrphan(TRUE, rm_ok)
              /\ last' = Step("upload", 0, "", IF rm_ok THEN "" ELSE "cleanup failed")
              /\ resp' = [op |-> "upload", code |-> 500]
              /\ UNCHANGED tasks
         [] outcome = "ok" ->
              /\ doc' = [SaveDocument(ext) EXCEPT !.status = "processing"]
              /\ file_exists' = TRUE
              /\ tasks' = Append(tasks, Task("p1", "upload", UploadFileType(ext)))
              /\ last' = Step("upload", 0, "", "")
              /\ resp' = [op |-> "upload", code |-> 200]

-----------------------------------------------------------------------------
(* Phase 1: process_extraction_background *)

P1Begin(t) ==
    /\ loop = 0
    /\ tasks[t].kind = "p1"
    /\ tasks[t].pc = "queued"
    /\ last' = Step("p1_begin", t, tasks[t].origin, "")
    /\ IF ~doc.exists
       THEN /\ tasks' = SetPc(t, "done")
            /\ UNCHANGED <<doc, loop, writer>>
       ELSE /\ doc' = [doc EXCEPT !.status = "processing",
                                  !.ingestion_step = "extracting",
                                  !.ingestion_progress = 10]
            /\ tasks' = SetPc(t, "begun")
            /\ loop' = t
            /\ writer' = t
    /\ UNCHANGED <<file_exists, resp, text_committed>>

(* variant: the inner except branch recording the status alone *)
ExtractionFailureStatusOnly(d, e) == [d EXCEPT !.status = "failed"]

ExtractionFailure(d, e) ==
    [d EXCEPT !.status = "failed", !.extracted_text = ExtractionFailedText(e)]

ExtractionSuccess(d, text) ==
    [d EXCEPT !.extracted_text = text,
              !.status = "extracted",
              !.ingestion_step = "ready_for_synthesis",
              !.ingestion_progress = 100]

(* variant: the outer except branch without the status write *)
CriticalFailureUnrecorded(d, text) == [d EXCEPT !.extracted_text = text]

CriticalFailure(d, text) ==
    [d EXCEPT !.extracted_text = text, !.status = "failed"]

P1Extract(t) ==
    /\ loop = t
    /\ tasks[t].kind = "p1"
    /\ tasks[t].pc = "begun"
    /\ loop' = 0
    /\ writer' = t
    /\ LET called == tasks[t].ftype = "PDF" \/ file_exists
           results == IF called THEN ConvertToMarkdown(doc.ext, file_exists)
                      ELSE {Return("")}
       IN \E r \in results, analysis_ok \in BOOLEAN :
            IF ~r.ok
            THEN /\ doc' = ExtractionFailure(doc, r.err)
                 /\ tasks' = SetPc(t, "done")
                 /\ last' = Step("p1_convert_error", t, tasks[t].origin, r.err)
                 /\ text_committed' = TRUE
            ELSE IF analysis_ok
            THEN /\ doc' = ExtractionSuccess(doc, r.text)
                 /\ tasks' = SetPc(t, "sync")
                 /\ last' = Step("p1_extracted", t, tasks[t].origin, "")
                 /\ text_committed' = (text_committed \/ ~Falsy(r.text))
            ELSE /\ doc' = CriticalFailure(doc, r.text)
                 /\ tasks' = SetPc(t, "done")
                 /\ last' = Step("p1_critical", t, tasks[t].origin, "analysis failed")
                 /\ text_committed' = (text_committed \/ ~Falsy(r.text))
    /\ UNCHANGED <<file_exists, resp>>

P1Sync(t, sync_ok) ==
    /\ loop = 0
    /\ tasks[t].kind = "p1"
    /\ tasks[t].pc = "sync"
    /\ tasks' = SetPc(t, "done")
    /\ last' = Step("p1_synced", t, tasks[t].origin,
                    IF sync_ok THEN "" ELSE "sync failed")
    /\ UNCHANGED <<doc, file_exists, loop, resp, text_committed, writer>>

-----------------------------------------------------------------------------
(* Phase 2: process_ingestion_background *)

P2Begin(t) ==
    /\ loop = 0
    /\ tasks[t].kind = "p2"
    /\ tasks[t].pc = "queued"
    /\ last' = Step("p2_begin", t, tasks[t].origin, "")
    /\ IF ~doc.exists \/ Falsy(doc.extracted_text)
       THEN /\ tasks' = SetPc(t, "done")
            /\ UNCHANGED <<doc, writer>>
       ELSE /\ doc' = [doc EXCEPT !.status = "ingesting",
                                  !.ingestion_step = "initializing",
                                  !.ingestion_progress = 0]
            /\ tasks' = SetPc(t, "pipeline")
            /\ writer' = t
    /\ UNCHANGED <<file_exists, loop, resp, text_committed>>

OnProgress(d, step, progress) ==
    IF d.exists
    THEN [d EXCEPT !.ingestion_step = step, !.ingestion_progress = progress]
    ELSE d

P2Progress(t, step) ==
    /\ loop = 0
    /\ tasks[t].kind = "p2"
    /\ tasks[t].pc = "pipeline"
    /\ doc' = OnProgress(doc, step, IF step = "storing_chunks" THEN 30 ELSE 60)
    /\ last' = Step("p2_progress", t, tasks[t].origin, "")
    /\ writer' = t
    /\ UNCHANGED <<file_exists, tasks, loop, resp, text_committed>>

Finalize(d) ==
    IF d.exists
    THEN [d EXCEPT !.status = "completed",
                   !.ingestion_step = "complete",
                   !.ingestion_progress = 100]
    ELSE d

P2Finish(t) ==
    /\ loop = 0
    /\ tasks[t].kind = "p2"
    /\ tasks[t].pc = "pipeline"
    /\ doc' = Finalize(doc)
    /\ tasks' = SetPc(t, "done")
    /\ last' = Step("p2_completed", t, tasks[t].origin, "")
    /\ writer' = t
    /\ UNCHANGED <<file_exists, loop, resp, text_committed>>

IngestionFailure(d, e) ==
    IF d.exists
    THEN [d EXCEPT !.status = "failed", !.ingestion_step = FailedStep(e)]
    ELSE d

P2Fail(t, e) ==
    /\ loop = 0
    /\ tasks[t].kind = "p2"
    /\ tasks[t].pc = "pipeline"
    /\ doc' = IngestionFailure(doc, e)
    /\ tasks' = SetPc(t, "done")
    /\ last' = Step("p2_failed", t, tasks[t].origin, e)
    /\ writer' = t
    /\ UNCHANGED <<file_exists, loop, resp, text_committed>>

-----------------------------------------------------------------------------
(* POST /{id}/synthesize and POST /{id}/reprocess *)

(* variant: the handler without its 400 check *)
SynthesizeAcceptsAny(d) == TRUE

SynthesizeAccepts(d) == ~Falsy(d.extracted_text)

Synthesize ==
    /\ loop = 0
    /\ Len(tasks) < MaxTasks
    /\ last' = Step("synthesize", 0, "", "")
    /\ IF ~doc.exists
       THEN /\ resp' = [op |-> "synthesize", code |-> 404]
            /\ UNCHANGED <<doc, tasks, writer>>
       ELSE IF ~SynthesizeAccepts(doc)
       THEN /\ resp' = [op |-> "synthesize", code |-> 400]
            /\ UNCHANGED <<doc, tasks, writer>>
       ELSE /\ tasks' = Append(tasks, Task("p2", "synthesize", ""))
            /\ doc' = [doc EXCEPT !.status = "ingesting",
                                  !.ingestion_step = "queued",
                                  !.ingestion_progress = 0]
            /\ resp' = [op |-> "synthesize", code |-> 200]
            /\ writer' = 0
    /\ UNCHANGED <<file_exists, loop, text_committed>>

ReprocessFileType(ext) ==
    IF ext = ".pdf" THEN "PDF"
    ELSE IF ext \in {".jpg", ".jpeg", ".png"} THEN "IMAGE"
    ELSE "OTHER"

Reprocess ==
    /\ loop = 0
    /\ Len(tasks) < MaxTasks
    /\ last' = Step("reprocess", 0, "", "")
    /\ IF ~doc.exists
       THEN /\ resp' = [op |-> "reprocess", code |-> 404]
            /\ UNCHANGED <<doc, tasks, writer>>
       ELSE IF doc.file_path = ""
       THEN /\ resp' = [op |-> "reprocess", code |-> 400]
            /\ UNCHANGED <<doc, tasks, writer>>
       ELSE /\ tasks' = Append(tasks, Task("p1", "reprocess", ReprocessFileType(doc.ext)))
            /\ doc' = [doc EXCEPT !.status = "processing",
                                  !.ingestion_step = "queued_extraction",
                                  !.ingestion_progress = 0]
            /\ resp' = [op |-> "reprocess", code |-> 200]
            /\ writer' = 0
    /\ UNCHANGED <<file_exists, loop, text_committed>>

-----------------------------------------------------------------------------

InitDocs ==
    /\ doc = NoDoc
    /\ file_exists = FALSE
    /\ tasks = <<>>
    /\ loop = 0
    /\ resp = NoResp
    /\ last = NoLast
    /\ text_committed = FALSE
    /\ writer = 0

-----------------------------------------------------------------------------
(* UserSettings: optional values, the row, the llm_config dictionary *)

None == <<>>

Some(v) == <<v>>

IsSome(o) == o # None

Val(o) == o[1]

Truthy(o) == IsSome(o) /\ Val(o) # ""

Min(a, b) == IF a <= b THEN a ELSE b

Max(a, b) == IF a >= b THEN a ELSE b

(* max(lo, min(hi, v)); target_retention is counted in hundredths *)
ClampUpperOnly(lo, hi, v) == Min(hi, v)

Clamp(lo, hi, v) == Max(lo, Min(hi, v))

NoRow == [exists |-> FALSE]

NewUserSettings ==
    [exists |-> TRUE,
     target_retention |-> 90, daily_new_limit |-> 20,
     focus_duration |-> 25, break_duration |-> 5,
     email |-> None, resend_api_key |-> None,
     email_daily_reminder |-> TRUE, email_streak_alert |-> TRUE,
     email_weekly_digest |-> TRUE,
     llm_config |-> None,
     embedding_provider |-> None, embedding_model |-> None,
     embedding_api_key |-> None, embedding_base_url |-> None,
     use_biometrics |-> FALSE,
     fitbit_client_id |-> None, fitbit_client_secret |-> None,
     fitbit_redirect_uri |-> None,
     timezone |-> None,
     weekly_digest_day |-> None, weekly_digest_hour |-> None,
     weekly_digest_minute |-> None]

LoadOrCreate(row) == IF row.exists THEN row ELSE NewUserSettings

EmptyDict == <<>>

Get(d, k) == IF k \in DOMAIN d THEN d[k] ELSE None

(* new = dict(current); new.update(supplied) *)
ReplaceConfig(current, supplied) == supplied

MergeConfig(current, supplied) ==
    [k \in (DOMAIN current) \cup (DOMAIN supplied) |->
        IF k \in DOMAIN supplied THEN supplied[k] ELSE current[k]]

SetKey(d, key, v) ==
    [k \in (DOMAIN d) \cup {key} |-> IF k = key THEN v ELSE d[k]]

Or(o, fallback) == IF Truthy(o) THEN o ELSE fallback

-----------------------------------------------------------------------------
(* PATCH /api/cognitive/settings *)

PatchFields ==
    {"target_retention", "daily_new_limit", "focus_duration", "break_duration",
     "email", "resend_api_key", "email_daily_reminder", "email_streak_alert",
     "email_weekly_digest", "llm_config", "embedding_provider", "embedding_model",
     "embedding_api_key", "embedding_base_url"}

EmptyPatch == [op |-> "patch"] @@ [f \in PatchFields |-> None]

CalibrationRequests ==
    {EmptyPatch}
    \cup {[EmptyPatch EXCEPT !.target_retention = Some(v)] : v \in {50, 70, 85, 97, 99}}
    \cup {[EmptyPatch EXCEPT !.daily_new_limit = Some(v)] : v \in {-3, 0, 1, 100, 101}}
    \cup {[EmptyPatch EXCEPT !.focus_duration = Some(v)] : v \in {0, 4, 5, 120, 500}}
    \cup {[EmptyPatch EXCEPT !.break_duration = Some(v)] : v \in {0, 1, 30, 31}}
    \cup {[EmptyPatch EXCEPT !.target_retention = Some(100), !.daily_new_limit = Some(0),
                             !.focus_duration = Some(121), !.break_duration = Some(-1)]}

WithOtherFields(r) ==
    {r}
    \cup {[r EXCEPT !.email = Some("a@example.org")],
          [r EXCEPT !.resend_api_key = Some("re_key")],
          [r EXCEPT !.email_daily_reminder = Some(FALSE)],
          [r EXCEPT !.email_streak_alert = Some(FALSE), !.email_weekly_digest = Some(FALSE)],
          [r EXCEPT !.llm_config = Some("tutor" :> "t1")],
          [r EXCEPT !.llm_config = Some(("tutor" :> "t2") @@ ("global" :> "g1"))],
          [r EXCEPT !.llm_config = Some(EmptyDict)],
          [r EXCEPT !.embedding_provider = Some("ollama")],
          [r EXCEPT !.embedding_provider = Some(""), !.embedding_model = Some("nomic")],
          [r EXCEPT !.embedding_api_key = Some(""), !.embedding_base_url = Some("http://e")]}

PatchRequests ==
    CalibrationRequests
    \cup WithOtherFields(EmptyPatch)
    \cup WithOtherFields([EmptyPatch EXCEPT !.focus_duration = Some(200)])

Mirrors(data) ==
    Truthy(data.embedding_provider) \/ Truthy(data.embedding_model)
        \/ Truthy(data.embedding_base_url)

(* lines 103-142: the columns *)
ApplyColumns(s, data) ==
    [s EXCEPT
        !.target_retention =
            IF IsSome(data.target_retention)
            THEN Clamp(70, 97, Val(data.target_retention)) ELSE @,
        !.daily_new_limit =
            IF IsSome(data.daily_new_limit)
            THEN Clamp(1, 100, Val(data.daily_new_limit)) ELSE @,
        !.focus_duration =
            IF IsSome(data.focus_duration)
            THEN Clamp(5, 120, Val(data.focus_duration)) ELSE @,
        !.break_duration =
            IF IsSome(data.break_duration)
            THEN Clamp(1, 30, Val(data.break_duration)) ELSE @,
        !.email = IF IsSome(data.email) THEN data.email ELSE @,
        !.resend_api_key = IF IsSome(data.resend_api_key) THEN data.resend_api_key ELSE @,
        !.email_daily_reminder =
            IF IsSome(data.email_daily_reminder) THEN Val(data.email_daily_reminder) ELSE @,
        !.email_streak_alert =
            IF IsSome(data.email_streak_alert) THEN Val(data.email_streak_alert) ELSE @,
        !.email_weekly_digest =
            IF IsSome(data.email_weekly_digest) THEN Val(data.email_weekly_digest) ELSE @,
        !.llm_config =
            IF IsSome(data.llm_config)
            THEN IF @ = None THEN data.llm_config
                 ELSE Some(MergeConfig(Val(@), Val(data.llm_config)))
            ELSE @,
        !.embedding_provider =
            IF Truthy(data.embedding_provider) THEN data.embedding_provider ELSE @,
        !.embedding_model =
            IF Truthy(data.embedding_model) THEN data.embedding_model ELSE @,
        !.embedding_api_key =
            IF IsSome(data.embedding_api_key) THEN data.embedding_api_key ELSE @,
        !.embedding_base_url =
            IF Truthy(data.embedding_base_url) THEN data.embedding_base_url ELSE @]

(* lines 145-152: config["embeddings"] = {...} on `llm_config or {}` *)
MirrorEmbeddings(config, data) ==
    LET base == IF config = None THEN EmptyDict ELSE Val(config)
        old == IF "embeddings" \in DOMAIN base THEN base["embeddings"]
               ELSE [provider |-> None, model |-> None, base_url |-> None]
    IN Some(SetKey(base, "embeddings",
                   [provider |-> Or(data.embedding_provider, old.provider),
                    model |-> Or(data.embedding_model, old.model),
                    base_url |-> Or(data.embedding_base_url, old.base_url)]))

(* The mirror mutates the loaded dictionary in place when the request carries
   no llm_config and the stored one is non-empty; whether the commit then
   writes the column depends on the column's change tracking, which
   models/orm.py decides: both outcomes are kept. *)
UpdateSettings(data, tracked) ==
    /\ nreq < MaxRequests
    /\ LET s0 == LoadOrCreate(us)
           s1 == ApplyColumns(s0, data)
           in_place == data.llm_config = None /\ s0.llm_config # None
                          /\ Val(s0.llm_config) # EmptyDict
           s2 == IF Mirrors(data) /\ (tracked \/ ~in_place)
                 THEN [s1 EXCEPT !.llm_config = MirrorEmbeddings(s1.llm_config, data)]
                 ELSE s1
       IN /\ us' = s2
          /\ us_prev' = s0
    /\ req' = data
    /\ nreq' = nreq + 1

InitSettings ==
    /\ us = NoRow
    /\ us_prev = NoRow
    /\ req = [op |-> ""]
    /\ nreq = 0

-----------------------------------------------------------------------------
(* POST /api/goals/agent/settings *)

AgentFields ==
    {"check_in_frequency_hours", "email_daily_reminder", "email_streak_alert",
     "email_weekly_digest", "resend_api_key", "email", "use_biometrics",
     "fitbit_client_id", "fitbit_client_secret", "fitbit_redirect_uri",
     "timezone", "weekly_digest_day", "weekly_digest_hour", "weekly_digest_minute"}

EmptyAgentRequest ==
    [op |-> "agent", llm_config |-> "gpt-4o"] @@ [f \in AgentFields |-> None]

AgentRequests ==
    {EmptyAgentRequest}
    \cup {[EmptyAgentRequest EXCEPT !.email_daily_reminder = Some(b)] : b \in BOOLEAN}
    \cup {[EmptyAgentRequest EXCEPT !.check_in_frequency_hours = Some(h)] : h \in {0, 8}}
    \cup {[EmptyAgentRequest EXCEPT !.use_biometrics = Some(b)] : b \in BOOLEAN}
    \cup {[EmptyAgentRequest EXCEPT !.resend_api_key = Some(k)] : k \in {"", "re_key"}}
    \cup {[EmptyAgentRequest EXCEPT !.email_streak_alert = Some(FALSE)],
          [EmptyAgentRequest EXCEPT !.email_weekly_digest = Some(FALSE)],
          [EmptyAgentRequest EXCEPT !.email = Some("a@example.org")],
          [EmptyAgentRequest EXCEPT !.fitbit_client_id = Some("id"),
                                    !.fitbit_client_secret = Some("secret")],
          [EmptyAgentRequest EXCEPT !.fitbit_redirect_uri = Some("http://cb")],
          [EmptyAgentRequest EXCEPT !.timezone = Some("Europe/Paris")],
          [EmptyAgentRequest EXCEPT !.weekly_digest_day = Some(0)],
          [EmptyAgentRequest EXCEPT !.weekly_digest_hour = Some(9),
                                    !.weekly_digest_minute = Some(30)]}

(* models/agent.py AgentSettings: the values the schema gives absent fields *)
AgentSettingsModel(data) ==
    [data EXCEPT
        !.check_in_frequency_hours = IF IsSome(@) THEN @ ELSE Some(4),
        !.use_biometrics = IF IsSome(@) THEN @ ELSE Some(FALSE)]

UpdateAgentSettings(data) ==
    /\ nreq < MaxRequests
    /\ LET settings == AgentSettingsModel(data)
           s0 == LoadOrCreate(us)
           base == IF s0.llm_config = None THEN EmptyDict ELSE Val(s0.llm_config)
           new_config == SetKey(SetKey(base, "agent_settings", settings),
                                "agent_llm", settings.llm_config)
       IN /\ us' =
               [s0 EXCEPT
                  !.llm_config = Some(new_config),
                  !.email_daily_reminder =
                      IF IsSome(settings.email_daily_reminder)
                      THEN Val(settings.email_daily_reminder)
                      ELSE Val(settings.check_in_frequency_hours) > 0,
                  !.email_streak_alert =
                      IF IsSome(settings.email_streak_alert)
                      THEN Val(settings.email_streak_alert) ELSE @,
                  !.email_weekly_digest =
                      IF IsSome(settings.email_weekly_digest)
                      THEN Val(settings.email_weekly_digest) ELSE @,
                  !.resend_api_key =
                      IF Truthy(settings.resend_api_key) THEN settings.resend_api_key ELSE @,
                  !.email = IF Truthy(settings.email) THEN settings.email ELSE @,
                  !.use_biometrics = Val(settings.use_biometrics),
                  !.fitbit_client_id =
                      IF Truthy(settings.fitbit_client_id) THEN settings.fitbit_client_id ELSE @,
                  !.fitbit_client_secret =
                      IF Truthy(settings.fitbit_client_secret)
                      THEN settings.fitbit_client_secret ELSE @,
                  !.fitbit_redirect_uri =
                      IF Truthy(settings.fitbit_redirect_uri)
                      THEN settings.fitbit_redirect_uri ELSE @,
                  !.timezone = IF Truthy(settings.timezone) THEN settings.timezone ELSE @,
                  !.weekly_digest_day =
                      IF IsSome(settings.weekly_digest_day) THEN settings.weekly_digest_day ELSE @,
                  !.weekly_digest_hour =
                      IF IsSome(settings.weekly_digest_hour) THEN settings.weekly_digest_hour ELSE @,
                  !.weekly_digest_minute =
                      IF IsSome(settings.weekly_digest_minute)
                      THEN settings.weekly_digest_minute ELSE @]
          /\ us_prev' = s0
    /\ req' = data
    /\ nreq' = nreq + 1

-----------------------------------------------------------------------------
(* Goals and focus sessions (routers/goals.py).  Hours are counted in whole
   minutes, the clock and the deadlines in half days. *)

GoalIds == 1..MaxGoals

SessionIds == 1..MaxSessions

TargetInputs == {0, 120, 600}

DeadlineInputs == {None, Some(2)}

(* models/schemas.py FocusSessionEnd: duration_minutes, an integer *)
FocusSessionEnd == {-30, 300}

NoGoal == [state |-> "unused", target |-> 0, logged |-> 0, deadline |-> None]

NoSession == [state |-> "unused", goal_id |-> 0]

NoGoalResp ==
    [target |-> 0, logged |-> 0, deadline |-> None,
     progress_percent |-> 0, days_remaining |-> None, is_on_track |-> TRUE]

(* (goal.deadline - datetime.utcnow()).days *)
DaysRemaining(deadline, t) == (deadline - t) \div 2

(* required_pace <= 2.0, the pace being hours_remaining / days_remaining *)
IsOnTrackStrict(hours_remaining, days_remaining) ==
    hours_remaining < 120 * days_remaining

IsOnTrack(hours_remaining, days_remaining) ==
    hours_remaining <= 120 * days_remaining

EnrichGoalResponse(goal, t) ==
    LET progress == IF goal.target > 0 THEN (goal.logged * 100) \div goal.target ELSE 0
        days == IF IsSome(goal.deadline)
                THEN Some(DaysRemaining(Val(goal.deadline), t)) ELSE None
        on_track == IF IsSome(days) /\ Val(days) > 0 /\ goal.target > 0
                    THEN IsOnTrack(goal.target - goal.logged, Val(days))
                    ELSE TRUE
    IN [target |-> goal.target, logged |-> goal.logged,
        deadline |-> goal.deadline, progress_percent |-> Min(100, progress),
        days_remaining |-> days, is_on_track |-> on_track]

CreateGoal(target, deadline) ==
    /\ \E g \in GoalIds :
         /\ goals[g].state = "unused"
         /\ \A h \in GoalIds : h < g => goals[h].state # "unused"
         /\ LET goal == [state |-> "live", target |-> target, logged |-> 0,
                         deadline |-> deadline]
            IN /\ goals' = [goals EXCEPT ![g] = goal]
               /\ goal_resp' = EnrichGoalResponse(goal, now)
    /\ UNCHANGED <<sessions, now, nends>>

GetGoal(g) ==
    /\ goals[g].state = "live"
    /\ goal_resp' = EnrichGoalResponse(goals[g], now)
    /\ UNCHANGED <<goals, sessions, now, nends>>

(* models/schemas.py GoalUpdate: the fields set in the request *)
GoalUpdates ==
    {[target |-> Some(t), deadline |-> None] : t \in TargetInputs}
    \cup {[target |-> None, deadline |-> Some(d)] : d \in DeadlineInputs}

UpdateGoal(g, updates) ==
    /\ goals[g].state = "live"
    /\ LET goal == [goals[g] EXCEPT
                      !.target = IF IsSome(updates.target) THEN Val(updates.target) ELSE @,
                      !.deadline = IF IsSome(updates.deadline)
                                   THEN Val(updates.deadline) ELSE @]
       IN /\ goals' = [goals EXCEPT ![g] = goal]
          /\ goal_resp' = EnrichGoalResponse(goal, now)
    /\ UNCHANGED <<sessions, now, nends>>

DeleteGoal(g) ==
    /\ goals[g].state = "live"
    /\ goals' = [goals EXCEPT ![g].state = "deleted"]
    /\ goal_resp' = NoGoalResp
    /\ UNCHANGED <<sessions, now, nends>>

(* goal_id is the path parameter: 0 stands for "none", any other id is taken
   as given, whether or not a goal has it *)
StartFocusSession(goal_id) ==
    /\ \E s \in SessionIds :
         /\ sessions[s].state = "unused"
         /\ \A r \in SessionIds : r < s => sessions[r].state # "unused"
         /\ sessions' = [sessions EXCEPT ![s] = [state |-> "open", goal_id |-> goal_id]]
    /\ goal_resp' = NoGoalResp
    /\ UNCHANGED <<goals, now, nends>>

EndFocusSession(s, duration_minutes) ==
    /\ nends < MaxEnds
    /\ sessions[s].state # "unused"
    /\ sessions' = [sessions EXCEPT ![s].state = "ended"]
    /\ LET g == sessions[s].goal_id
       IN IF g # 0 /\ goals[g].state = "live"
          THEN goals' = [goals EXCEPT ![g].logged = @ + duration_minutes]
          ELSE goals' = goals
    /\ nends' = nends + 1
    /\ goal_resp' = NoGoalResp
    /\ UNCHANGED now

Tick ==
    /\ now < MaxNow
    /\ now' = now + 1
    /\ goal_resp' = NoGoalResp
    /\ UNCHANGED <<goals, sessions, nends>>

InitGoals ==
    /\ goals = [g \in GoalIds |-> NoGoal]
    /\ sessions = [s \in SessionIds |-> NoSession]
    /\ now = 0
    /\ goal_resp = NoGoalResp
    /\ nends = 0

-----------------------------------------------------------------------------
(* DocumentProcessor.chunk_content (ingestion/document_processor.py).  A text
   is a sequence of characters; a chunk carries, beside its content and tag,
   the branch that emitted it. *)

Alphabet == {"a", ".", " ", "\n"}

Texts == UNION {[1..n -> Alphabet] : n \in 0..MaxLen}

IsSpace(c) == c \in {" ", "\n"}

RECURSIVE LStrip(_)
LStrip(s) == IF s # <<>> /\ IsSpace(Head(s)) THEN LStrip(Tail(s)) ELSE s

RECURSIVE RStrip(_)
RStrip(s) ==
    IF s # <<>> /\ IsSpace(s[Len(s)]) THEN RStrip(SubSeq(s, 1, Len(s) - 1)) ELSE s

(* str.strip() *)
Strip(s) == RStrip(LStrip(s))

StartsWith(s, sep) == Len(s) >= Len(sep) /\ SubSeq(s, 1, Len(sep)) = sep

Drop(s, n) == SubSeq(s, n + 1, Len(s))

(* str.split(sep): the pieces between the occurrences of sep, left to right *)
RECURSIVE SplitFrom(_, _, _)
SplitFrom(piece, rest, sep) ==
    IF rest = <<>> THEN <<piece>>
    ELSE IF StartsWith(rest, sep)
         THEN <<piece>> \o SplitFrom(<<>>, Drop(rest, Len(sep)), sep)
         ELSE SplitFrom(Append(piece, Head(rest)), Tail(rest), sep)

Split(s, sep) == SplitFrom(<<>>, s, sep)

(* sub in s *)
Contains(s, sub) == \E i \in 0..(Len(s) - Len(sub)) : SubSeq(s, i + 1, i + Len(sub)) = sub

(* str.replace(old, new) *)
RECURSIVE Replace(_, _, _)
Replace(s, old, new) ==
    IF s = <<>> THEN <<>>
    ELSE IF StartsWith(s, old) THEN new \o Replace(Drop(s, Len(old)), old, new)
         ELSE <<Head(s)>> \o Replace(Tail(s), old, new)

(* sep.join(parts) *)
RECURSIVE Join(_, _)
Join(parts, sep) ==
    IF parts = <<>> THEN <<>>
    ELSE IF Len(parts) = 1 THEN parts[1]
         ELSE parts[1] \o sep \o Join(Tail(parts), sep)

Chunk(content, concept_tag, via) ==
    [content |-> content, concept_tag |-> concept_tag, via |-> via]

(* variant: the size test looking at the new piece alone *)
ExceedsAlone(current_size, size, chunk_size) == size > chunk_size

(* current_size + para_size > self.chunk_size, temp_size + sent_size > self.chunk_size *)
Exceeds(current_size, size, chunk_size) == current_size + size > chunk_size

(* for i in range(0, sent_size, self.chunk_size): sentence[i:i + self.chunk_size] *)
RECURSIVE ForceSplit(_, _, _)
ForceSplit(sentence, concept_tag, chunk_size) ==
    IF sentence = <<>> THEN <<>>
    ELSE IF Len(sentence) <= chunk_size THEN <<Chunk(sentence, concept_tag, "forced")>>
         ELSE <<Chunk(SubSeq(sentence, 1, chunk_size), concept_tag, "forced")>>
                  \o ForceSplit(Drop(sentence, chunk_size), concept_tag, chunk_size)

FlushSentences(temp_chunk, concept_tag) ==
    IF temp_chunk # <<>>
    THEN <<Chunk(Join(temp_chunk, <<" ">>), concept_tag, "sentences")>>
    ELSE <<>>

(* the loop over the sentences of an oversized paragraph, and the flush after it *)
RECURSIVE SentenceLoop(_, _, _, _, _)
SentenceLoop(sentences, temp_chunk, temp_size, concept_tag, chunk_size) ==
    IF sentences = <<>> THEN FlushSentences(temp_chunk, concept_tag)
    ELSE LET sentence == Strip(Head(sentences))
             rest == Tail(sentences)
             sent_size == Len(sentence)
         IN IF sentence = <<>>
            THEN SentenceLoop(rest, temp_chunk, temp_size, concept_tag, chunk_size)
            ELSE IF sent_size > chunk_size
            THEN FlushSentences(temp_chunk, concept_tag)
                     \o ForceSplit(sentence, concept_tag, chunk_size)
                     \o SentenceLoop(rest, <<>>, 0, concept_tag, chunk_size)
            ELSE IF Exceeds(temp_size, sent_size, chunk_size) /\ temp_chunk # <<>>
            THEN FlushSentences(temp_chunk, concept_tag)
                     \o SentenceLoop(rest, <<sentence>>, sent_size, concept_tag, chunk_size)
            ELSE SentenceLoop(rest, Append(temp_chunk, sentence),
                              temp_size + sent_size + 1, concept_tag, chunk_size)

SplitSentences(paragraph) == Split(Replace(paragraph, <<".", " ">>, <<".", "\n">>), <<"\n">>)

FlushParagraphs(current_chunk, concept_tag) ==
    IF current_chunk # <<>>
    THEN <<Chunk(Join(current_chunk, <<"\n", "\n">>), concept_tag, "paragraphs")>>
    ELSE <<>>

(* the loop over the paragraphs, and the flush after it *)
RECURSIVE ParagraphLoop(_, _, _, _, _)
ParagraphLoop(paragraphs, current_chunk, current_size, concept_tag, chunk_size) ==
    IF paragraphs = <<>> THEN FlushParagraphs(current_chunk, concept_tag)
    ELSE LET paragraph == Strip(Head(paragraphs))
             rest == Tail(paragraphs)
             para_size == Len(paragraph)
         IN IF paragraph = <<>>
            THEN ParagraphLoop(rest, current_chunk, current_size, concept_tag, chunk_size)
            ELSE IF para_size > chunk_size
            THEN FlushParagraphs(current_chunk, concept_tag)
                     \o SentenceLoop(SplitSentences(paragraph), <<>>, 0,
                                     concept_tag, chunk_size)
                     \o ParagraphLoop(rest, <<>>, 0, concept_tag, chunk_size)
            ELSE IF Exceeds(current_size, para_size, chunk_size) /\ current_chunk # <<>>
            THEN FlushParagraphs(current_chunk, concept_tag)
                     \o ParagraphLoop(rest, <<paragraph>>, para_size,
                                      concept_tag, chunk_size)
            ELSE ParagraphLoop(rest, Append(current_chunk, paragraph),
                               current_size + para_size + 2, concept_tag, chunk_size)

ChunkContentOf(markdown, concept_tag, chunk_size) ==
    IF markdown = <<>> \/ Strip(markdown) = <<>> THEN <<>>
    ELSE ParagraphLoop(Split(markdown, <<"\n", "\n">>), <<>>, 0, concept_tag, chunk_size)

NotChunked == [called |-> FALSE]

ChunkContent(markdown, concept_tag, chunk_size) ==
    /\ ~chunked.called
    /\ chunked' = [called |-> TRUE, markdown |-> markdown, chunk_size |-> chunk_size,
                   chunks |-> ChunkContentOf(markdown, concept_tag, chunk_size)]

(* files appear on disk and are removed; convert_to_markdown is called on a path *)
NotConverted == [called |-> FALSE]

CreateFile(suffix) ==
    /\ suffix \notin files
    /\ Cardinality(files) < MaxFiles
    /\ files' = files \cup {suffix}
    /\ UNCHANGED converted

RemoveFile(suffix) ==
    /\ suffix \in files
    /\ files' = files \ {suffix}
    /\ UNCHANGED converted

(* what the extractors find in a file.  A text is a sequence of characters:
   "t" a letter, " " white space, "NUL" the character \x00, "\n" a line break;
   "#" stands for a page heading "## Page i" and its blank line, "img" for an
   embedded image block, "OCR" for the placeholder message. *)
ExtractedTexts == {<<>>, <<" ">>, <<"NUL">>, <<"t", "NUL">>}

(* MarkItDown: result.text_content, or an exception *)
MarkItDownOutcomes == {[ok |-> TRUE, text |-> t] : t \in ExtractedTexts}
                          \cup {[ok |-> FALSE, text |-> <<>>]}

(* pypdf: page.extract_text() of each page, or an exception *)
PdfReaderOutcomes == {[ok |-> FALSE, pages |-> <<>>]}
                         \cup {[ok |-> TRUE, pages |-> <<t>>] : t \in {<<" ">>, <<"NUL">>}}

Extractions ==
    [markitdown : MarkItDownOutcomes, reader : PdfReaderOutcomes,
     page_range : BOOLEAN, images : BOOLEAN]

NoExtraction ==
    [markitdown |-> [ok |-> FALSE, text |-> <<>>], reader |-> [ok |-> FALSE, pages |-> <<>>],
     page_range |-> FALSE, images |-> FALSE]

(* the inputs that matter for a path: none when the call raises, no pypdf and
   no images for a file that is no PDF *)
ExtractionsOf(suffix, exists) ==
    IF ~exists \/ Lower(suffix) \notin SUPPORTED_FORMATS THEN {NoExtraction}
    ELSE IF Lower(suffix) # ".pdf"
    THEN {e \in Extractions : e.reader = NoExtraction.reader /\ ~e.page_range /\ ~e.images}
    ELSE Extractions

OcrPlaceholder == <<"OCR">>

(* the pages whose text is not blank, each under its heading, joined by blank
   lines (lines 75-80 and 116-121) *)
RECURSIVE PagesText(_)
PagesText(pages) ==
    IF pages = <<>> THEN <<>>
    ELSE LET rest == PagesText(Tail(pages))
             page_text == Head(pages)
         IN IF Strip(page_text) = <<>> THEN rest
            ELSE <<<<"#">> \o page_text>> \o rest

ReadPdf(reader) == IF reader.ok THEN Join(PagesText(reader.pages), <<"\n", "\n">>) ELSE <<>>

(* _inject_pdf_images: the image blocks go after the lines of their page;
   every line of the markdown is kept *)
InjectPdfImages(markdown, has_images) ==
    IF has_images /\ Contains(markdown, <<"#">>) THEN markdown \o <<"\n", "img">> ELSE markdown

(* lines 56-105: the text convert_to_markdown returns for an existing file
   with a supported extension *)
MarkdownOf(suffix, e) ==
    LET converted_text == IF e.markitdown.ok THEN e.markitdown.text ELSE <<>>
        text == IF Lower(suffix) = ".pdf" /\ e.page_range THEN ReadPdf(e.reader)
                ELSE IF Strip(converted_text) = <<>> /\ Lower(suffix) = ".pdf"
                THEN ReadPdf(e.reader)
                ELSE converted_text
        filled == IF Strip(text) = <<>> THEN OcrPlaceholder ELSE text
        with_images == IF Lower(suffix) = ".pdf" THEN InjectPdfImages(filled, e.images)
                       ELSE filled
    IN Replace(with_images, <<"NUL">>, <<>>)

ConvertFile(suffix) ==
    /\ \E e \in ExtractionsOf(suffix, suffix \in files) :
       \E result \in ConvertToMarkdown(suffix, suffix \in files) :
          LET markdown == IF result.ok THEN MarkdownOf(suffix, e) ELSE <<>> IN
          /\ result.ok => (result.text = "" <=> markdown = <<>>)
          /\ converted' = [called |-> TRUE, suffix |-> suffix,
                           existed |-> suffix \in files, result |-> result,
                           markdown |-> markdown]
    /\ UNCHANGED files

-----------------------------------------------------------------------------
(* Ingestion engine (ingestion/ingestion_engine.py): graph extraction and the
   Phase 2 pipeline.  Weights are counted in tenths. *)

LowerChar(c) == IF c = "A" THEN "a" ELSE IF c = "B" THEN "b" ELSE c

LowerText(s) == [i \in DOMAIN s |-> LowerChar(s[i])]

(* name.strip().lower() *)
NormalizeConceptName(name) == LowerText(Strip(name))

RawNames == {<<"a">>, <<"A", " ">>, <<"b">>, <<"x">>}

Markdowns == {<<>>, <<" ", "\n">>, <<"a">>}

Str(v) == [type |-> "str", value |-> v]

List(items) == [type |-> "list", items |-> items]

Link(source, target, weight) ==
    [source_concept |-> source, target_concept |-> target, weight |-> weight,
     reasoning |-> "r"]

Links == {Link(a, b, w) : a \in RawNames, b \in RawNames, w \in {-1, 0, 10, 11}}

LinkLists == UNION {[1..n -> Links] : n \in 0..MaxPrereqs}

ConceptLists == {<<>>, <<<<"a">>>>, <<<<"a">>, <<"b">>>>, <<<<"A", " ">>, <<"b">>>>}

NotJson == [json |-> FALSE]

Json(data) == [json |-> TRUE, data |-> data]

(* what the chat completion may return *)
LLMResponses ==
    {NotJson,
     Json([prerequisites |-> List(<<>>)]),
     Json([concepts |-> List(<<<<"a">>, <<"b">>>>)]),
     Json([concepts |-> List(<<<<"a">>, <<"b">>>>),
           prerequisites |-> List(<<[source_concept |-> <<"a">>]>>)]),
     Json([concepts |-> Str("not a list"), prerequisites |-> Str("not a list")])}
    \cup {Json([concepts |-> List(c), prerequisites |-> List(l)]) :
             c \in ConceptLists, l \in LinkLists}

LinkFields == {"source_concept", "target_concept", "weight", "reasoning"}

(* GraphSchema construction: the fields, their types, the weight range *)
ConformsToGraphSchema(data) ==
    /\ {"concepts", "prerequisites"} \subseteq DOMAIN data
    /\ data.concepts.type = "list"
    /\ data.prerequisites.type = "list"
    /\ \A i \in DOMAIN data.prerequisites.items :
          LET link == data.prerequisites.items[i]
          IN /\ LinkFields \subseteq DOMAIN link
             /\ link.weight >= 0
             /\ link.weight <= 10

GraphSchema(data) ==
    [concepts |-> [i \in DOMAIN data.concepts.items |->
                      NormalizeConceptName(data.concepts.items[i])],
     prerequisites |-> [i \in DOMAIN data.prerequisites.items |->
                          LET link == data.prerequisites.items[i]
                          IN Link(NormalizeConceptName(link.source_concept),
                                  NormalizeConceptName(link.target_concept),
                                  link.weight)]]

Range(f) == {f[i] : i \in DOMAIN f}

(* variant: the check looking at the source endpoint alone *)
ValidateSourcesOnly(schema) ==
    \A i \in DOMAIN schema.prerequisites :
        schema.prerequisites[i].source_concept \in Range(schema.concepts)

ValidateGraphStructure(schema) ==
    \A i \in DOMAIN schema.prerequisites :
        /\ schema.prerequisites[i].source_concept \in Range(schema.concepts)
        /\ schema.prerequisites[i].target_concept \in Range(schema.concepts)

NoSchema == [concepts |-> <<>>, prerequisites |-> <<>>]

Extraction(log, error, schema) == [log |-> log, error |-> error, schema |-> schema]

(* variant: the chat completion called before the input is looked at *)
ExtractGraphStructureCallFirst(markdown, response) ==
    IF Strip(markdown) = <<>>
    THEN Extraction(<<"llm_call">>, "Cannot extract graph structure from empty content",
                    NoSchema)
    ELSE IF ~response.json
    THEN Extraction(<<"llm_call">>, "LLM returned invalid JSON", NoSchema)
    ELSE IF ~ConformsToGraphSchema(response.data)
    THEN Extraction(<<"llm_call">>, "validation error", NoSchema)
    ELSE Extraction(<<"llm_call">>, "", GraphSchema(response.data))

(* extract_graph_structure: the events of the call, and its error or schema *)
ExtractGraphStructure(markdown, response) ==
    IF Strip(markdown) = <<>>
    THEN Extraction(<<>>, "Cannot extract graph structure from empty content", NoSchema)
    ELSE IF ~response.json
    THEN Extraction(<<"llm_call">>, "LLM returned invalid JSON", NoSchema)
    ELSE IF ~ConformsToGraphSchema(response.data)
    THEN Extraction(<<"llm_call">>, "validation error", NoSchema)
    ELSE Extraction(<<"llm_call">>, "", GraphSchema(response.data))

IdleEngine ==
    [op |-> "", pc |-> "idle", markdown |-> <<>>, chunks |-> 0, response |-> NotJson,
     schema |-> NoSchema, validated |-> FALSE, error |-> "", log |-> <<>>]

(* a direct call of extract_graph_structure *)
ExtractGraph(markdown, response) ==
    /\ engine.pc = "idle"
    /\ LET x == ExtractGraphStructure(markdown, response)
       IN engine' = [IdleEngine EXCEPT
                        !.op = "extract_graph_structure",
                        !.pc = IF x.error = "" THEN "done" ELSE "raised",
                        !.markdown = markdown, !.response = response,
                        !.schema = x.schema, !.error = x.error, !.log = x.log]

(* process_document_complete: the call, then its stages in order *)
PipelineBegin(markdown, chunks, response) ==
    /\ engine.pc = "idle"
    /\ engine' = [IdleEngine EXCEPT
                     !.op = "process_document_complete", !.pc = "chunks",
                     !.markdown = markdown, !.chunks = chunks, !.response = response]

StoreChunks(e, ok) ==
    IF e.chunks = 0 THEN [e EXCEPT !.pc = "extract"]
    ELSE IF ok THEN [e EXCEPT !.pc = "extract", !.log = Append(@, "chunk_write")]
    ELSE [e EXCEPT !.pc = "raised", !.error = "chunk storage failed",
                    !.log = Append(@, "chunk_write")]

PipelineStoreChunks(ok) ==
    /\ engine.pc = "chunks"
    /\ engine' = StoreChunks(engine, ok)

PipelineExtract ==
    /\ engine.pc = "extract"
    /\ LET x == ExtractGraphStructure(engine.markdown, engine.response)
       IN engine' = [engine EXCEPT
                        !.pc = IF x.error = "" THEN "validate" ELSE "raised",
                        !.schema = x.schema, !.error = x.error, !.log = @ \o x.log]

PipelineValidate ==
    /\ engine.pc = "validate"
    /\ LET valid == ValidateGraphStructure(engine.schema)
       IN engine' = [engine EXCEPT
                        !.validated = valid,
                        !.pc = IF valid THEN "store" ELSE "raised",
                        !.error = IF valid THEN "" ELSE "graph validation failed"]

PipelineStoreGraph ==
    /\ engine.pc = "store"
    /\ engine' = [engine EXCEPT !.pc = "done", !.log = Append(@, "graph_write")]

-----------------------------------------------------------------------------
(* Graph storage (database/graph_storage.py): store_concepts_batch.  Each
   caller's call merges its nodes one by one; calls of different callers
   interleave between merges. *)

Callers == 1..MaxCallers

ConceptNames == {<<"a">>, <<"A", " ">>, <<"b">>}

BatchSizes == 1..MaxBatch

(* a call: the length of its concept_nodes, the nodes merged so far, the
   normalized names among them, and the count it returned *)
NoBatch == [pc |-> "idle", size |-> 0, done |-> 0, names |-> {}, returned |-> -1]

NodeCount(g, name) == IF name \in DOMAIN g THEN g[name] ELSE 0

(* variant: CREATE in place of MERGE *)
CreateConcept(g, name) ==
    LET key == NormalizeConceptName(name)
    IN [k \in (DOMAIN g) \cup {key} |->
           IF k = key THEN NodeCount(g, key) + 1 ELSE g[k]]

(* MERGE (c:Concept {name: ...}): the node is matched or created, atomically *)
MergeConcept(g, name) ==
    LET key == NormalizeConceptName(name)
    IN [k \in (DOMAIN g) \cup {key} |->
           IF k = key THEN (IF NodeCount(g, key) = 0 THEN 1 ELSE g[key]) ELSE g[k]]

(* store_concepts_batch(concept_nodes) is entered with a list of `size` nodes *)
StoreConceptsBatchCall(c, size) ==
    /\ batch[c].pc = "idle"
    /\ batch' = [batch EXCEPT ![c] = [NoBatch EXCEPT !.pc = "merging", !.size = size]]
    /\ UNCHANGED <<graph, ever_stored>>

(* the next node of the list, whose name is `name`, is merged *)
StoreConceptsBatchMerge(c, name) ==
    /\ batch[c].pc = "merging"
    /\ batch[c].done < batch[c].size
    /\ graph' = MergeConcept(graph, name)
    /\ ever_stored' = ever_stored \cup {NormalizeConceptName(name)}
    /\ batch' = [batch EXCEPT ![c].done = @ + 1,
                              ![c].names = @ \cup {NormalizeConceptName(name)}]

(* the list is exhausted: the count of nodes attempted is returned *)
StoreConceptsBatchReturn(c) ==
    /\ batch[c].pc = "merging"
    /\ batch[c].done = batch[c].size
    /\ batch' = [batch EXCEPT ![c].pc = "returned", ![c].returned = batch[c].done]
    /\ UNCHANGED <<graph, ever_stored>>

(* the caller makes another call later *)
StoreConceptsBatchAgain(c) ==
    /\ batch[c].pc = "returned"
    /\ batch' = [batch EXCEPT ![c] = NoBatch]
    /\ UNCHANGED <<graph, ever_stored>>

InitGraph ==
    /\ graph = <<>>
    /\ batch = [c \in Callers |-> NoBatch]
    /\ ever_stored = {}

-----------------------------------------------------------------------------
(* Vector storage (ingestion/vector_storage.py).  Texts are sequences of
   characters; "NUL" stands for the character \x00.  An embedding is kept as
   the text it was generated from and its length. *)

(* variant: the text written as it is *)
KeepText(text) == text

(* _sanitize_text: text.replace('\x00', '') *)
SanitizeText(text) == Replace(text, <<"NUL">>, <<>>)

DocSources == {<<" ", "d">>, <<" ">>}

Contents == {<<" ", "c">>, <<"c", "NUL">>}

ConceptTags == {<<"a">>, <<"A", " ">>, <<"a", "NUL">>, <<"b">>}

(* the declared widths of the embedding column, 0 being the unconstrained type *)
ColumnWidths == {0, 2}

(* the lengths of the vectors of the embedding models that can be configured *)
ServiceDims == {2, 3}

(* the catalog is queried when no width is cached, and the query may raise *)
CatalogOutcomes == IF expected_vector_dim # 0 THEN {TRUE} ELSE BOOLEAN

NoEmbedding == [of |-> <<>>, dim |-> 0]

Embedding(text, dim) == [of |-> text, dim |-> dim]

NoCall ==
    [op |-> "", doc_source |-> <<>>, content |-> <<>>, concept_tag |-> <<>>,
     chunks |-> <<>>, dim |-> 0, raised |-> "none", msg |-> "", ids |-> <<>>,
     result |-> <<>>, inserted |-> 0, order |-> <<>>, failed_insert |-> <<>>]

NoPending == [active |-> FALSE, chunks |-> <<>>, done |-> <<>>, order |-> <<>>]

(* _get_expected_vector_dimension: the cached width, else the catalog's answer;
   an unconstrained column, or a catalog query that raises, gives None *)
GetExpectedVectorDimension(cached, catalog_ok) ==
    IF cached # 0 THEN cached
    ELSE IF catalog_ok THEN column_width ELSE 0

(* _validate_embedding_dimension raises *)
DimensionMismatch(expected, embedding) ==
    /\ expected > 0
    /\ embedding.dim # expected

Raised(kind, msg, expected) ==
    [raised |-> kind, msg |-> msg, embedding |-> NoEmbedding, expected |-> expected]

(* generate_embedding: what it raises or returns, and the width cached after it *)
GenerateEmbedding(text, cached, catalog_ok, service_ok) ==
    IF Strip(text) = <<>>
    THEN Raised("ValueError", "Cannot generate embedding for empty text", cached)
    ELSE IF ~service_ok
    THEN Raised("ValueError", "Embedding generation failed", cached)
    ELSE LET expected == GetExpectedVectorDimension(cached, catalog_ok)
            dim == model_dim
         IN IF DimensionMismatch(expected, Embedding(text, dim))
            THEN Raised("EmbeddingDimensionMismatchError", "EMBEDDING_DIMENSION_MISMATCH",
                        expected)
            ELSE [raised |-> "none", msg |-> "", embedding |-> Embedding(text, dim),
                  expected |-> expected]

(* the database refuses a vector of another length than the column's:
   "expected N dimensions, not M" *)
InsertRejected(embedding) ==
    /\ column_width # 0
    /\ embedding.dim # column_width

(* the values of the INSERT *)
Row(id, doc_source, content, concept_tag, embedding) ==
    [id |-> id,
     doc_source |-> SanitizeText(Strip(doc_source)),
     content |-> SanitizeText(Strip(content)),
     concept_tag |-> SanitizeText(LowerText(Strip(concept_tag))),
     embedding |-> embedding,
     embedding_dimensions |-> embedding.dim]

(* LearningChunk(id, doc_source, content, concept_tag) of a row *)
LearningChunk(row) ==
    [id |-> row.id, doc_source |-> row.doc_source, content |-> row.content,
     concept_tag |-> row.concept_tag]

(* the chunks of the rows a SELECT keeps, in insertion order *)
LearningChunks(kept) == [i \in DOMAIN kept |-> LearningChunk(kept[i])]

Idle == model_dim # 0 /\ ~pending.active

(* the deployment: the migration declares the embedding column, the settings
   name the embedding model *)
Deploy(width, dim) ==
    /\ model_dim = 0
    /\ column_width' = width
    /\ model_dim' = dim
    /\ UNCHANGED <<expected_vector_dim, rows, call, pending>>

(* await generate_embedding(text), called on its own *)
GenerateEmbeddingCall(text, catalog_ok, service_ok) ==
    LET g == GenerateEmbedding(text, expected_vector_dim, catalog_ok, service_ok)
    IN /\ expected_vector_dim' = g.expected
       /\ call' = [NoCall EXCEPT !.op = "generate_embedding", !.content = text,
                                 !.dim = IF service_ok /\ Strip(text) # <<>> THEN model_dim ELSE 0,
                                 !.raised = g.raised, !.msg = g.msg]
       /\ UNCHANGED <<column_width, model_dim, rows, pending>>

(* store_chunk *)
StoreChunk(doc_source, content, concept_tag, catalog_ok, service_ok) ==
    LET args == [NoCall EXCEPT !.op = "store_chunk", !.doc_source = doc_source,
                               !.content = content, !.concept_tag = concept_tag]
        g == GenerateEmbedding(content, expected_vector_dim, catalog_ok, service_ok)
        dim == model_dim
        id == Len(rows) + 1
    IN /\ Len(rows) < MaxRows
       /\ UNCHANGED <<column_width, model_dim, pending>>
       /\ IF Strip(doc_source) = <<>> \/ Strip(content) = <<>> \/ Strip(concept_tag) = <<>>
          THEN /\ call' = [args EXCEPT !.raised = "ValueError", !.msg = "cannot be empty"]
               /\ UNCHANGED <<expected_vector_dim, rows>>
          ELSE /\ expected_vector_dim' = g.expected
               /\ IF g.raised = "EmbeddingDimensionMismatchError"
                  THEN /\ call' = [args EXCEPT !.dim = dim, !.raised = g.raised, !.msg = g.msg]
                       /\ rows' = rows
                  ELSE IF g.raised # "none"
                  THEN /\ call' = [args EXCEPT !.raised = "ValueError",
                                               !.msg = "Chunk storage failed"]
                       /\ rows' = rows
                  ELSE IF InsertRejected(g.embedding)
                  THEN /\ call' = [args EXCEPT !.dim = dim,
                                               !.raised = "EmbeddingDimensionMismatchError",
                                               !.msg = "EMBEDDING_DIMENSION_MISMATCH"]
                       /\ rows' = rows
                  ELSE /\ rows' = Append(rows, Row(id, doc_source, content, concept_tag,
                                                   g.embedding))
                       /\ call' = [args EXCEPT !.dim = dim, !.ids = <<id>>, !.inserted = 1]

(* a (doc_source, content, concept_tag) tuple of store_chunks_batch *)
ChunkTuple(doc_source, content, concept_tag) ==
    [doc_source |-> doc_source, content |-> content, concept_tag |-> concept_tag]

ChunkTuples ==
    {ChunkTuple(<<" ", "d">>, <<" ", "c">>, <<"a">>),
     ChunkTuple(<<" ">>, <<"e">>, <<"A", " ">>),
     ChunkTuple(<<" ", "d">>, <<>>, <<"a">>)}

ChunkLists == UNION {[1..n -> ChunkTuples] : n \in 0..MaxChunks}

(* the call as it ends; order, the order in which its embeddings arrived, is
   kept for the record *)
BatchCall(p) ==
    [NoCall EXCEPT !.op = "store_chunks_batch", !.chunks = p.chunks, !.order = p.order]

(* a mismatching length among the vectors returned so far, else the last one *)
ReturnedDim(done) ==
    LET dims == {done[i].dim : i \in DOMAIN done} \ {0}
        off == {d \in dims : column_width # 0 /\ d # column_width}
    IN IF off # {} THEN CHOOSE d \in off : TRUE
       ELSE IF dims # {} THEN CHOOSE d \in dims : TRUE ELSE 0

(* store_chunks_batch up to asyncio.gather: the empty list returns [], an empty
   field raises, otherwise one embed_content task per chunk is started *)
StoreChunksBatchBegin(chunks) ==
    /\ Len(rows) + Len(chunks) <= MaxRows
    /\ UNCHANGED <<column_width, model_dim, expected_vector_dim, rows>>
    /\ IF chunks = <<>>
       THEN /\ call' = [NoCall EXCEPT !.op = "store_chunks_batch"]
            /\ pending' = pending
       ELSE IF \E i \in DOMAIN chunks :
                  \/ chunks[i].doc_source = <<>>
                  \/ chunks[i].content = <<>>
                  \/ chunks[i].concept_tag = <<>>
       THEN /\ call' = [NoCall EXCEPT !.op = "store_chunks_batch", !.chunks = chunks,
                                      !.raised = "ValueError",
                                      !.msg = "Batch chunk storage failed"]
            /\ pending' = pending
       ELSE /\ pending' = [active |-> TRUE, chunks |-> chunks,
                           done |-> [i \in DOMAIN chunks |-> NoEmbedding], order |-> <<>>]
            /\ call' = call

(* the embed_content task of chunk i finishes, at any moment relative to the
   others (the semaphore admits embedding_concurrency tasks at once, more than
   a list here has): its embedding is its task's result, or its exception
   ends the gather *)
StoreChunksBatchEmbed(i, catalog_ok, service_ok) ==
    LET g == GenerateEmbedding(pending.chunks[i].content, expected_vector_dim,
                               catalog_ok, service_ok)
        dim == model_dim
        done == [pending.done EXCEPT ![i] = Embedding(pending.chunks[i].content,
                                                      IF service_ok THEN dim ELSE 0)]
    IN /\ pending.active
       /\ i \in DOMAIN pending.chunks
       /\ i \notin Range(pending.order)
       /\ expected_vector_dim' = g.expected
       /\ UNCHANGED <<column_width, model_dim, rows>>
       /\ IF g.raised = "none"
          THEN /\ pending' = [pending EXCEPT !.done = done, !.order = Append(@, i)]
               /\ call' = call
          ELSE /\ pending' = NoPending
               /\ call' = [BatchCall(pending) EXCEPT
                              !.dim = ReturnedDim(done),
                              !.raised = g.raised,
                              !.msg = IF g.raised = "ValueError"
                                      THEN "Batch chunk storage failed" ELSE g.msg]

(* variant: the embeddings taken in the order the tasks finished *)
AsCompleted(p) == [k \in DOMAIN p.chunks |-> p.done[p.order[k]]]

(* embeddings = await asyncio.gather(...): the results in the order of the tasks *)
Gather(p) == [i \in DOMAIN p.chunks |-> p.done[i]]

(* variant: the rows of a failed batch on a connection are left in place *)
KeepInserted(has_connect, new, first_bad) == SubSeq(new, 1, first_bad - 1)

(* the rows of the batch left after insert first_bad failed: on a connection
   (lines 327-351) the rollback removes them, on the per-row calls of the
   fallback (lines 352-374) those before it stay *)
RowsOfFailedBatch(has_connect, new, first_bad) ==
    IF has_connect THEN <<>> ELSE SubSeq(new, 1, first_bad - 1)

(* the inserts, once every embedding is there: on one connection, committed
   together or rolled back, when db_conn has connect(), else by one
   execute_query per row.  fails_at is the insert the database fails for a
   reason of its own (0: none); a vector of another length than the column's
   is refused as well. *)
StoreChunksBatchInsert(has_connect, fails_at) ==
    LET embeddings == Gather(pending)
        n == Len(pending.chunks)
        ids == [i \in 1..n |-> Len(rows) + i]
        new == [i \in 1..n |-> Row(ids[i], pending.chunks[i].doc_source,
                                   pending.chunks[i].content,
                                   pending.chunks[i].concept_tag, embeddings[i])]
        bad == {i \in 1..n : InsertRejected(embeddings[i]) \/ i = fails_at}
        first_bad == IF bad = {} THEN 0 ELSE CHOOSE i \in bad : \A j \in bad : i <= j
        kept == RowsOfFailedBatch(has_connect, new, first_bad)
    IN /\ pending.active
       /\ Len(pending.order) = n
       /\ fails_at <= n
       /\ pending' = NoPending
       /\ UNCHANGED <<column_width, model_dim, expected_vector_dim>>
       /\ IF first_bad # 0
          THEN /\ rows' = rows \o kept
               /\ call' = [BatchCall(pending) EXCEPT
                              !.dim = ReturnedDim(pending.done),
                              !.raised = IF InsertRejected(embeddings[first_bad])
                                         THEN "EmbeddingDimensionMismatchError"
                                         ELSE "ValueError",
                              !.msg = IF InsertRejected(embeddings[first_bad])
                                      THEN "EMBEDDING_DIMENSION_MISMATCH"
                                      ELSE "Batch chunk storage failed",
                              !.inserted = Len(kept),
                              !.failed_insert = <<has_connect, first_bad>>]
          ELSE /\ rows' = rows \o new
               /\ call' = [BatchCall(pending) EXCEPT
                              !.dim = ReturnedDim(pending.done),
                              !.ids = ids, !.inserted = n]

HasNul(text) == "NUL" \in Range(text)

(* retrieve_chunks_by_concept: WHERE concept_tag = concept_tag.strip().lower().
   The parameter goes to the database as it is; with a \x00 in it the driver
   either rejects it or the query matches no row. *)
RetrieveChunksByConcept(concept_tag, driver_rejects) ==
    LET key == LowerText(Strip(concept_tag))
        Keep(row) == row.concept_tag = key
        args == [NoCall EXCEPT !.op = "retrieve_chunks_by_concept",
                               !.concept_tag = concept_tag]
    IN /\ UNCHANGED <<column_width, model_dim, expected_vector_dim, rows, pending>>
       /\ IF Strip(concept_tag) = <<>>
          THEN call' = [args EXCEPT !.raised = "ValueError",
                                    !.msg = "concept_tag cannot be empty"]
          ELSE IF HasNul(key) /\ driver_rejects
          THEN call' = [args EXCEPT !.raised = "ValueError",
                                    !.msg = "Chunk retrieval failed"]
          ELSE call' = [args EXCEPT !.result = LearningChunks(SelectSeq(rows, Keep))]

(* similarity_search: the rows of the query's dimensionality, and of the
   concept when one is given; the ranking by similarity is left out.  Every
   exception inside the try block leaves as ValueError("Similarity search
   failed: ..."). *)
SimilaritySearch(query_text, concept_filter, catalog_ok, service_ok) ==
    LET g == GenerateEmbedding(query_text, expected_vector_dim, catalog_ok, service_ok)
        dim == model_dim
        Keep(row) ==
            /\ row.embedding_dimensions = dim
            /\ concept_filter # <<>> => row.concept_tag = LowerText(Strip(concept_filter))
        args == [NoCall EXCEPT !.op = "similarity_search", !.content = query_text,
                               !.concept_tag = concept_filter]
    IN /\ UNCHANGED <<column_width, model_dim, rows, pending>>
       /\ IF Strip(query_text) = <<>>
          THEN /\ call' = [args EXCEPT !.raised = "ValueError",
                                       !.msg = "query_text cannot be empty"]
               /\ UNCHANGED expected_vector_dim
          ELSE /\ expected_vector_dim' = g.expected
               /\ IF g.raised # "none"
                  THEN call' = [args EXCEPT !.dim = IF service_ok THEN dim ELSE 0,
                                            !.raised = "ValueError",
                                            !.msg = "Similarity search failed"]
                  ELSE call' = [args EXCEPT !.dim = dim,
                                            !.result = LearningChunks(SelectSeq(rows, Keep))]

InitVector ==
    /\ column_width = 0
    /\ model_dim = 0
    /\ expected_vector_dim = 0
    /\ rows = <<>>
    /\ call = NoCall
    /\ pending = NoPending

-----------------------------------------------------------------------------
(* Progress tracking (routers/navigation.py over navigation/user_tracker.py).
   The graph holds the concepts "a" and "b", "a" being a prerequisite of "b";
   "x" is a name the graph does not hold. *)

UserIds == 1..MaxUsers

GraphConcepts == {"a", "b"}

ConceptNamesAsked == GraphConcepts \cup {"x"}

PrerequisiteEdges == {<<"a", "b">>}

NotStarted == [c \in ConceptNamesAsked |-> "NOT_STARTED"]

PrerequisitesMet(state, concept) ==
    \A e \in PrerequisiteEdges : e[2] = concept => state[e[1]] = "COMPLETED"

(* variant: the concept marked whatever its state and prerequisites *)
MarkInProgressUnchecked(state, concept) ==
    [success |-> TRUE, state |-> [state EXCEPT ![concept] = "IN_PROGRESS"]]

(* mark_in_progress: false for a completed concept or unmet prerequisites *)
MarkInProgress(state, concept) ==
    IF state[concept] = "COMPLETED" \/ ~PrerequisitesMet(state, concept)
    THEN [success |-> FALSE, state |-> state]
    ELSE [success |-> TRUE, state |-> [state EXCEPT ![concept] = "IN_PROGRESS"]]

(* mark_completed: false for a concept the graph does not hold; whether a
   concept never started can be completed is left open, `direct` says
   whether the tracker takes it *)
MarkCompleted(state, concept, direct) ==
    IF concept \notin GraphConcepts \/ (state[concept] = "NOT_STARTED" /\ ~direct)
    THEN [success |-> FALSE, state |-> state]
    ELSE [success |-> TRUE, state |-> [state EXCEPT ![concept] = "COMPLETED"]]

(* the handlers' answer: HTTPException(400) when the tracker returns false *)
ProgressResponse(op, user_id, concept_name, success) ==
    [op |-> op, user_id |-> user_id, concept_name |-> concept_name,
     code |-> IF success THEN 200 ELSE 400]

(* POST /api/progress/start *)
StartConcept(user_id, concept_name) ==
    LET r == MarkInProgress(user_progress[user_id], concept_name)
    IN /\ user_progress' = [user_progress EXCEPT ![user_id] = r.state]
       /\ nav' = ProgressResponse("start_concept", user_id, concept_name, r.success)

(* POST /api/progress/complete *)
CompleteConcept(user_id, concept_name, direct) ==
    LET r == MarkCompleted(user_progress[user_id], concept_name, direct)
    IN /\ user_progress' = [user_progress EXCEPT ![user_id] = r.state]
       /\ nav' = ProgressResponse("complete_concept", user_id, concept_name, r.success)

InitNavigation ==
    /\ user_progress = [u \in UserIds |-> NotStarted]
    /\ nav = [op |-> "", user_id |-> 0, concept_name |-> "", code |-> 0]

-----------------------------------------------------------------------------
(* MultimodalBinder.caption_images (ingestion/binder.py) *)

ImageIds == 1..MaxImages

(* bind_images stores img_data.get("name", "Extracted Image") *)
BoundCaptions == {"Extracted Image", "fig"}

NeedsCaption(img) == img.caption = "" \/ img.caption = "Extracted Image"

NotCaptioning == [pc |-> "idle", i |-> 0, tried |-> {}, failed |-> {}]

(* bind_images: one DocumentImage row per extracted image, committed *)
BindImages(captions) ==
    /\ images = <<>>
    /\ captioning.pc = "idle"
    /\ images' = [i \in DOMAIN captions |->
                     [caption |-> captions[i], committed |-> captions[i]]]
    /\ UNCHANGED <<captioning, shot, episodic>>

CaptionImagesBegin ==
    /\ captioning.pc = "idle"
    /\ captioning' = [NotCaptioning EXCEPT !.pc = "loop", !.i = 1]
    /\ UNCHANGED <<images, shot, episodic>>

(* one turn of `for img in images`: the vision call returns a caption or
   raises, and the exception is logged *)
CaptionImagesNext(vision_ok) ==
    LET i == captioning.i
    IN /\ captioning.pc = "loop"
       /\ i <= Len(images)
       /\ UNCHANGED <<shot, episodic>>
       /\ IF ~NeedsCaption(images[i])
          THEN /\ captioning' = [captioning EXCEPT !.i = i + 1]
               /\ images' = images
          ELSE IF vision_ok
          THEN /\ captioning' = [captioning EXCEPT !.i = i + 1, !.tried = @ \cup {i}]
               /\ images' = [images EXCEPT ![i].caption = "described"]
          ELSE /\ captioning' = [captioning EXCEPT !.i = i + 1, !.tried = @ \cup {i},
                                                   !.failed = @ \cup {i}]
               /\ images' = images

(* db.commit() after the loop *)
CaptionImagesCommit ==
    /\ captioning.pc = "loop"
    /\ captioning.i > Len(images)
    /\ captioning' = [captioning EXCEPT !.pc = "done"]
    /\ images' = [i \in DOMAIN images |-> [images[i] EXCEPT !.committed = images[i].caption]]
    /\ UNCHANGED <<shot, episodic>>

-----------------------------------------------------------------------------
(* POST /api/goals/agent/tools/screenshot (routers/goals.py) *)

NoShot ==
    [code |-> 0, image_url |-> "", analysis |-> "", analyze |-> FALSE,
     vision_failed |-> FALSE, recorded |-> FALSE]

(* capture_url returns a path or "", the vision completion returns a text or
   raises; nothing in the handler catches what it raises *)
AgentScreenshotTool(captured, analyze, vision_ok) ==
    /\ episodic < MaxMemories
    /\ UNCHANGED <<images, captioning>>
    /\ IF ~captured
       THEN /\ shot' = [NoShot EXCEPT !.code = 400, !.analyze = analyze]
            /\ episodic' = episodic
       ELSE IF analyze /\ ~vision_ok
       THEN /\ shot' = [NoShot EXCEPT !.code = 500, !.analyze = TRUE, !.vision_failed = TRUE]
            /\ episodic' = episodic
       ELSE /\ shot' = [NoShot EXCEPT !.code = 200, !.image_url = "/screenshots/f.png",
                                      !.analysis = IF analyze THEN "text" ELSE "",
                                      !.analyze = analyze, !.recorded = TRUE]
            /\ episodic' = episodic + 1

InitSide ==
    /\ images = <<>>
    /\ captioning = NotCaptioning
    /\ shot = NoShot
    /\ episodic = 0

-----------------------------------------------------------------------------
(* ConceptTutorService.get_active_intel (services/concept_tutor.py).  A
   response is a sequence of tokens: "fence" a code fence (three backquotes), "json" the word after
   an opening fence, "{" and "}" the braces, "k" the three members "analogy",
   "insight", "question" with their values; "json" anywhere else is any other
   text. *)

ResponseTokens == {"fence", "json", "{", "}", "k"}

(* str.find / str.rfind of one character: 0 stands for -1 *)
Find(s, c) == IF \E i \in DOMAIN s : s[i] = c
              THEN CHOOSE i \in DOMAIN s : s[i] = c /\ \A j \in 1..(i - 1) : s[j] # c
              ELSE 0

RFind(s, c) == IF \E i \in DOMAIN s : s[i] = c
               THEN CHOOSE i \in DOMAIN s : s[i] = c /\ \A j \in (i + 1)..Len(s) : s[j] # c
               ELSE 0

(* lines 71-78: the text between the fences, then from the first "{" to the
   last "}"; text[start:end] is empty when the last "}" comes first, and
   text[start:0] when there is none *)
UnwrapResponse(response) ==
    LET fenced == IF Contains(response, <<"fence", "json">>)
                  THEN Split(Split(response, <<"fence", "json">>)[2], <<"fence">>)[1]
                  ELSE IF Contains(response, <<"fence">>)
                  THEN Split(Split(response, <<"fence">>)[2], <<"fence">>)[1]
                  ELSE response
        start_brace == Find(fenced, "{")
    IN IF start_brace # 0 THEN SubSeq(fenced, start_brace, RFind(fenced, "}"))
       ELSE fenced

(* json.loads: the object with the three members, the empty object, or a
   JSONDecodeError *)
JsonLoads(text) ==
    IF text = <<"{", "k", "}">> THEN [ok |-> TRUE, keys |-> {"analogy", "insight", "question"}]
    ELSE IF text = <<"{", "}">> THEN [ok |-> TRUE, keys |-> {}]
    ELSE [ok |-> FALSE, keys |-> {}]

NoIntel == [llm |-> "", response |-> <<>>, parsed |-> FALSE, keys |-> {}, returned |-> ""]

(* lines 87-91: the members are read with response.get(...), and response
   is the completion text, a str: AttributeError, which the handler of line 93
   turns into the fallback; response_data is not read *)
ReadMembers(response, response_data) == "fallback"

(* get_active_intel is entered and awaits the completion *)
GetActiveIntelCall ==
    /\ intel.llm # "pending"
    /\ intel' = [NoIntel EXCEPT !.llm = "pending"]

(* the completion grows by one token *)
GetCompletion(token) ==
    /\ intel.llm = "pending"
    /\ Len(intel.response) < MaxResponse
    /\ intel' = [intel EXCEPT !.response = Append(@, token)]

(* the completion raises or returns its text, and get_active_intel returns *)
GetActiveIntelReturn(llm_ok) ==
    LET response == intel.response
        loaded == JsonLoads(UnwrapResponse(response))
        response_data == IF loaded.ok THEN loaded.keys ELSE {}
    IN /\ intel.llm = "pending"
       /\ intel' =
            IF ~llm_ok THEN [NoIntel EXCEPT !.llm = "raised", !.returned = "fallback"]
            ELSE [llm |-> "returned", response |-> response, parsed |-> loaded.ok,
                  keys |-> loaded.keys,
                  returned |-> IF response = <<>> THEN "fallback"
                               ELSE ReadMembers(response, response_data)]

InitTutor == intel = NoIntel

-----------------------------------------------------------------------------
(* store_chunks_batch: the embedding tasks of one call (vector_storage.py,
   lines 297-319).  A chunk is "text" (three non-empty fields, content with a
   character other than white space), "blank" (three non-empty fields, content
   of white space only) or "empty" (a field is empty). *)

ChunkKinds == {"text", "blank", "empty"}

(* settings.embedding_concurrency: <<>> when the attribute is not set, or
   <<n>> for the integer n *)
EmbeddingConcurrencies == {<<>>, <<0>>, <<2>>}

EmbeddingConcurrencyDefault == 4

(* line 301: max(1, int(getattr(settings, "embedding_concurrency", 4))) *)
SemaphoreValue(embedding_concurrency) ==
    Max(1, IF embedding_concurrency = <<>> THEN EmbeddingConcurrencyDefault
           ELSE embedding_concurrency[1])

NoEmbeds == [state |-> "idle", limit |-> 0, kinds |-> <<>>, pc |-> <<>>, issued |-> <<>>]

InFlight(e) == Cardinality({i \in DOMAIN e.pc : e.pc[i] = "in_flight"})

Settled(e) == \A i \in DOMAIN e.pc : e.pc[i] \in {"done", "failed"}

(* variant: a task enters generate_embedding without the semaphore *)
Unlimited(e, i) == TRUE

(* async with semaphore: the semaphore has a free slot, and the tasks before
   this one, which gather created first, are past their acquire *)
SemaphoreFree(e, i) ==
    /\ InFlight(e) < e.limit
    /\ \A j \in 1..(i - 1) : e.pc[j] # "created"

(* the list of the call is built one chunk at a time *)
EmbedBatchChunk(kind) ==
    /\ embeds.state = "idle"
    /\ Len(embeds.kinds) < MaxGather
    /\ embeds' = [embeds EXCEPT !.kinds = Append(@, kind)]

(* store_chunks_batch(chunks): an empty list returns [], a chunk with an empty
   field raises ValueError before any task exists, otherwise gather creates
   one task per chunk *)
EmbedBatchCall(embedding_concurrency) ==
    LET n == Len(embeds.kinds) IN
    /\ embeds.state = "idle"
    /\ embeds' =
         IF n = 0 THEN [embeds EXCEPT !.state = "returned"]
         ELSE IF \E i \in 1..n : embeds.kinds[i] = "empty"
         THEN [embeds EXCEPT !.state = "raised", !.issued = [i \in 1..n |-> FALSE]]
         ELSE [embeds EXCEPT !.state = "gathering",
                             !.limit = SemaphoreValue(embedding_concurrency),
                             !.pc = [i \in 1..n |-> "created"],
                             !.issued = [i \in 1..n |-> FALSE]]

(* embed_content: the task takes the semaphore and calls generate_embedding,
   which raises on blank text before any request and otherwise awaits
   llm_service.get_embedding.  A task that raises ends the gather; the other
   tasks run on. *)
EmbedAcquire(i) ==
    /\ embeds.state \in {"gathering", "raised"}
    /\ i \in DOMAIN embeds.pc
    /\ embeds.pc[i] = "created"
    /\ SemaphoreFree(embeds, i)
    /\ embeds' =
         IF embeds.kinds[i] = "blank"
         THEN [embeds EXCEPT !.pc[i] = "failed", !.state = "raised"]
         ELSE [embeds EXCEPT !.pc[i] = "in_flight", !.issued[i] = TRUE]

(* the request is answered or fails, and the semaphore is released *)
EmbedComplete(i, service_ok) ==
    /\ embeds.state \in {"gathering", "raised"}
    /\ i \in DOMAIN embeds.pc
    /\ embeds.pc[i] = "in_flight"
    /\ LET pcs == [embeds.pc EXCEPT ![i] = IF service_ok THEN "done" ELSE "failed"] IN
       embeds' = [embeds EXCEPT
                    !.pc = pcs,
                    !.state = IF ~service_ok THEN "raised"
                              ELSE IF @ = "gathering" /\ \A j \in DOMAIN pcs : pcs[j] = "done"
                              THEN "returned" ELSE @]

(* the next call, once the tasks of the last one have ended *)
EmbedBatchNext ==
    /\ embeds.state \in {"returned", "raised"}
    /\ Settled(embeds)
    /\ embeds' = NoEmbeds

InitEmbeds == embeds = NoEmbeds

-----------------------------------------------------------------------------
(* Quiz grading: POST /{document_id}/quiz/grade (routers/documents.py).
   Scores are in tenths: 3 is 0.3, 10 is 1.0. *)

QuizSessionIds == {"s1", "s2"}

(* the answer key of an item is a list of strings *)
AnswerKeys == {<<>>, << <<"A", " ", "c">>, <<"d", " ", "e", " ", "g", " ", "B">> >>}

NoneText == <<"None">>

(* request.transcript and request.answer_text: absent, empty or a text *)
Transcripts == {NoneText, <<>>, <<"B">>, <<"x", "A">>}

AnswerTexts == {NoneText, <<"x">>}

(* the completion: a JSON object with a score, a text json.loads rejects, or
   an exception *)
GradingOutcomes == {"score_1", "bad_json", "raises"}

FallbackScoreHit == 3

FallbackScoreMiss == 1

FallbackKeyWords == 5

(* a or b, for Optional[str] *)
OrText(a, b) == IF a \in {NoneText, <<>>} THEN b ELSE a

(* str.split() with no separator: the runs of characters between white space *)
Words(s) == SelectSeq(Split(s, <<" ">>), LAMBDA w : w # <<>>)

(* seq[:n] *)
Take(seq, n) == SubSeq(seq, 1, Min(n, Len(seq)))

(* variant: every word of the answer key is looked for *)
OverlapScoreAllWords(answer_key, response_text) ==
    LET ref == LowerText(Join(answer_key, <<" ">>))
        ans == LowerText(response_text)
    IN IF \E k \in Range(Words(ref)) : Contains(ans, k)
       THEN FallbackScoreHit ELSE FallbackScoreMiss

(* lines 964-966: the overlap heuristic of the fallback *)
OverlapScore(answer_key, response_text) ==
    LET ref == LowerText(Join(answer_key, <<" ">>))
        ans == LowerText(response_text)
    IN IF \E k \in Range(Take(Words(ref), FallbackKeyWords)) : Contains(ans, k)
       THEN FallbackScoreHit ELSE FallbackScoreMiss

NoGrade == [status |-> 0, session_id |-> "", quiz_item_id |-> 0, response_text |-> <<>>,
            fallback |-> FALSE, score |-> 0]

NoQuiz == [items |-> <<>>, attempts |-> <<>>, last |-> NoGrade]

(* POST /{document_id}/quiz/generate persists an item with its answer key *)
GenerateQuizItem(answer_key) ==
    /\ Len(quiz.items) < MaxItems
    /\ quiz' = [quiz EXCEPT !.items = Append(@, answer_key)]

(* POST /{document_id}/quiz/grade *)
GradeDocumentQuizItem(session_id, quiz_item_id, transcript, answer_text, outcome) ==
    LET response_text == OrText(transcript, answer_text)
        request == [NoGrade EXCEPT !.session_id = session_id, !.quiz_item_id = quiz_item_id]
        fallback == outcome \in {"bad_json", "raises"}
        score == IF fallback THEN OverlapScore(quiz.items[quiz_item_id], response_text)
                 ELSE IF outcome = "score_1" THEN 10 ELSE 0
    IN /\ Len(quiz.attempts) < MaxAttempts
       /\ quiz' =
            IF quiz_item_id \notin DOMAIN quiz.items
            THEN [quiz EXCEPT !.last = [request EXCEPT !.status = 404]]
            ELSE IF response_text \in {NoneText, <<>>}
            THEN [quiz EXCEPT !.last = [request EXCEPT !.status = 400]]
            ELSE [quiz EXCEPT
                    !.attempts = Append(@, [session_id |-> session_id,
                                            quiz_item_id |-> quiz_item_id,
                                            score |-> score]),
                    !.last = [request EXCEPT !.status = 200,
                                             !.response_text = response_text,
                                             !.fallback = fallback,
                                             !.score = score]]

InitQuiz == quiz = NoQuiz

-----------------------------------------------------------------------------
(* Link ingestion: POST /youtube and POST /link (routers/documents.py).  A
   request runs from its call to its response; the steps are the calls it
   awaits or that may raise: fetch_transcript, the save of the virtual
   document, process_document. *)

TranscriptOutcomes == {"text", "blank", "raises"}

NoLink ==
    [docs |-> <<>>, served |-> 0, route |-> "", pc |-> "idle", doc |-> 0,
     code |-> 0]

(* DocumentStore.save_transcript / save_text_document: one new Document row *)
SaveVirtualDocument(docs, source, request) ==
    Append(docs, [status |-> "pending", source |-> source, request |-> request])

(* DocumentStore.update_status, and the handlers' doc.status = ...; commit *)
UpdateStatus(docs, document_id, status) ==
    [docs EXCEPT ![document_id].status = status]

(* the response of the request: the handler is left *)
Respond(l, code) == [l EXCEPT !.pc = "idle", !.code = code]

(* POST /youtube: 400 when the URL holds no video id *)
IngestYoutube(has_video_id) ==
    /\ link_req.pc = "idle"
    /\ link_req.served < MaxLinkRequests
    /\ LET l == [link_req EXCEPT !.served = @ + 1, !.route = "youtube", !.doc = 0,
                                 !.code = 0]
       IN link_req' = IF has_video_id THEN [l EXCEPT !.pc = "fetch"]
                      ELSE Respond(l, 400)

(* POST /link: the YouTube branch when the URL holds a video id, else the
   generic one *)
IngestLink(has_video_id) ==
    /\ link_req.pc = "idle"
    /\ link_req.served < MaxLinkRequests
    /\ link_req' = [link_req EXCEPT !.served = @ + 1, !.route = "link", !.doc = 0,
                                    !.code = 0,
                                    !.pc = IF has_video_id THEN "fetch" ELSE "save_text"]

(* fetch_transcript(video_id).  /youtube: 404 on an empty transcript, 500 when
   it raises.  /link: both lead to the generic branch. *)
FetchTranscript(outcome) ==
    /\ link_req.pc = "fetch"
    /\ link_req' =
          IF outcome = "text" THEN [link_req EXCEPT !.pc = "save_transcript"]
          ELSE IF link_req.route = "link" THEN [link_req EXCEPT !.pc = "save_text"]
          ELSE IF outcome = "blank" THEN Respond(link_req, 404)
          ELSE Respond(link_req, 500)

(* document_store.save_transcript, then status = "processing" and commit.
   When the save raises, /youtube answers 500 and /link goes on with the
   generic branch. *)
SaveTranscript(saved) ==
    /\ link_req.pc = "save_transcript"
    /\ link_req' =
          IF saved
          THEN LET docs == SaveVirtualDocument(link_req.docs, "transcript", link_req.served)
               IN [link_req EXCEPT !.docs = UpdateStatus(docs, Len(docs), "processing"),
                                   !.doc = Len(docs), !.pc = "process"]
          ELSE IF link_req.route = "link" THEN [link_req EXCEPT !.pc = "save_text"]
          ELSE Respond(link_req, 500)

(* the generic branch: document_store.save_text_document, then status =
   "processing" and commit; 500 when the save raises *)
SaveTextDocument(saved) ==
    /\ link_req.pc = "save_text"
    /\ link_req' =
          IF saved
          THEN LET docs == SaveVirtualDocument(link_req.docs, "text", link_req.served)
               IN [link_req EXCEPT !.docs = UpdateStatus(docs, Len(docs), "processing"),
                                   !.doc = Len(docs), !.pc = "process"]
          ELSE Respond(link_req, 500)

(* await ingestion_engine.process_document(...), then update_status(id,
   "completed") and the response.  When it raises: 500, except in the YouTube
   branch of /link, whose handler prints the exception and goes on with the
   generic branch. *)
ProcessVirtualDocument(processed) ==
    LET document_id == link_req.doc IN
    /\ link_req.pc = "process"
    /\ link_req' =
          IF processed
          THEN Respond([link_req EXCEPT
                           !.docs = UpdateStatus(@, document_id, "completed")], 200)
          ELSE IF link_req.route = "link"
                  /\ link_req.docs[document_id].source = "transcript"
          THEN [link_req EXCEPT !.pc = "save_text"]
          ELSE Respond(link_req, 500)

InitLink == link_req = NoLink

-----------------------------------------------------------------------------
(* Initial state of the ingestion library *)

InitIngest ==
    /\ chunked = NotChunked
    /\ files = {}
    /\ converted = NotConverted
    /\ engine = IdleEngine
    /\ InitGraph
    /\ InitVector

-----------------------------------------------------------------------------
(* Specifications: one per router, the rows of the others left alone *)

InitAll == InitDocs /\ InitSettings /\ InitGoals /\ InitIngest /\ InitNavigation /\ InitSide /\ InitTutor /\ InitQuiz /\ InitLink /\ InitEmbeds

NextDocs ==
    \/ \E ext \in Extensions, o \in UploadOutcomes, rm_ok \in BOOLEAN :
            Upload(ext, o, rm_ok) /\ UNCHANGED <<settingsVars, goalVars, ingestVars, navigationVars, sideVars, extraVars>>
    \/ \E t \in TaskIds : P1Begin(t) /\ UNCHANGED <<settingsVars, goalVars, ingestVars, navigationVars, sideVars, extraVars>>
    \/ \E t \in TaskIds : P1Extract(t) /\ UNCHANGED <<settingsVars, goalVars, ingestVars, navigationVars, sideVars, extraVars>>
    \/ \E t \in TaskIds, ok \in BOOLEAN :
            P1Sync(t, ok) /\ UNCHANGED <<settingsVars, goalVars, ingestVars, navigationVars, sideVars, extraVars>>
    \/ \E t \in TaskIds : P2Begin(t) /\ UNCHANGED <<settingsVars, goalVars, ingestVars, navigationVars, sideVars, extraVars>>
    \/ \E t \in TaskIds, s \in ProgressSteps :
            P2Progress(t, s) /\ UNCHANGED <<settingsVars, goalVars, ingestVars, navigationVars, sideVars, extraVars>>
    \/ \E t \in TaskIds : P2Finish(t) /\ UNCHANGED <<settingsVars, goalVars, ingestVars, navigationVars, sideVars, extraVars>>
    \/ \E t \in TaskIds, e \in PipelineErrors :
            P2Fail(t, e) /\ UNCHANGED <<settingsVars, goalVars, ingestVars, navigationVars, sideVars, extraVars>>
    \/ Synthesize /\ UNCHANGED <<settingsVars, goalVars, ingestVars, navigationVars, sideVars, extraVars>>
    \/ Reprocess /\ UNCHANGED <<settingsVars, goalVars, ingestVars, navigationVars, sideVars, extraVars>>

SpecDocs == InitAll /\ [][NextDocs]_vars

NextCognitive ==
    \E data \in PatchRequests, tracked \in BOOLEAN :
        UpdateSettings(data, tracked) /\ UNCHANGED <<docVars, goalVars, ingestVars, navigationVars, sideVars, extraVars>>

SpecCognitive == InitAll /\ [][NextCognitive]_vars

NextAgent ==
    \E data \in AgentRequests :
        UpdateAgentSettings(data) /\ UNCHANGED <<docVars, goalVars, ingestVars, navigationVars, sideVars, extraVars>>

SpecAgent == InitAll /\ [][NextAgent]_vars

NextGoals ==
    \/ \E t \in TargetInputs, d \in DeadlineInputs :
            CreateGoal(t, d) /\ UNCHANGED <<docVars, settingsVars, ingestVars, navigationVars, sideVars, extraVars>>
    \/ \E g \in GoalIds : GetGoal(g) /\ UNCHANGED <<docVars, settingsVars, ingestVars, navigationVars, sideVars, extraVars>>
    \/ \E g \in GoalIds, u \in GoalUpdates :
            UpdateGoal(g, u) /\ UNCHANGED <<docVars, settingsVars, ingestVars, navigationVars, sideVars, extraVars>>
    \/ \E g \in GoalIds : DeleteGoal(g) /\ UNCHANGED <<docVars, settingsVars, ingestVars, navigationVars, sideVars, extraVars>>
    \/ \E g \in {0} \cup GoalIds :
            StartFocusSession(g) /\ UNCHANGED <<docVars, settingsVars, ingestVars, navigationVars, sideVars, extraVars>>
    \/ \E s \in SessionIds, m \in FocusSessionEnd :
            EndFocusSession(s, m) /\ UNCHANGED <<docVars, settingsVars, ingestVars, navigationVars, sideVars, extraVars>>
    \/ Tick /\ UNCHANGED <<docVars, settingsVars, ingestVars, navigationVars, sideVars, extraVars>>

SpecGoals == InitAll /\ [][NextGoals]_vars

NextChunking ==
    /\ ~chunked.called
    /\ \E markdown \in Texts, chunk_size \in 1..MaxChunkSize :
          ChunkContent(markdown, "tag", chunk_size)
              /\ UNCHANGED exceptChunking

SpecChunking == InitAll /\ [][NextChunking]_vars

NextConversion ==
    \/ \E suffix \in Suffixes :
            CreateFile(suffix) /\ UNCHANGED exceptConversion
    \/ \E suffix \in Suffixes :
            RemoveFile(suffix) /\ UNCHANGED exceptConversion
    \/ \E suffix \in Suffixes :
            ConvertFile(suffix) /\ UNCHANGED exceptConversion

SpecConversion == InitAll /\ [][NextConversion]_vars

NextEngine ==
    \/ /\ engine.pc = "idle"
       /\ \E markdown \in Markdowns, response \in LLMResponses :
             ExtractGraph(markdown, response)
                 /\ UNCHANGED exceptEngine
    \/ /\ engine.pc = "idle"
       /\ \E markdown \in Markdowns, chunks \in 0..1, response \in LLMResponses :
             PipelineBegin(markdown, chunks, response)
                 /\ UNCHANGED exceptEngine
    \/ \E ok \in BOOLEAN :
            PipelineStoreChunks(ok) /\ UNCHANGED exceptEngine
    \/ PipelineExtract /\ UNCHANGED exceptEngine
    \/ PipelineValidate /\ UNCHANGED exceptEngine
    \/ PipelineStoreGraph /\ UNCHANGED exceptEngine

SpecEngine == InitAll /\ [][NextEngine]_vars

NextGraph ==
    \/ \E c \in Callers, size \in BatchSizes :
            StoreConceptsBatchCall(c, size) /\ UNCHANGED exceptGraph
    \/ \E c \in Callers, name \in ConceptNames :
            StoreConceptsBatchMerge(c, name) /\ UNCHANGED exceptGraph
    \/ \E c \in Callers : StoreConceptsBatchReturn(c) /\ UNCHANGED exceptGraph
    \/ \E c \in Callers : StoreConceptsBatchAgain(c) /\ UNCHANGED exceptGraph

SpecGraph == InitAll /\ [][NextGraph]_vars

NextVector ==
    \/ /\ model_dim = 0
       /\ \E width \in ColumnWidths, dim \in ServiceDims : Deploy(width, dim)
       /\ UNCHANGED exceptVector
    \/ /\ Idle
       /\ \E text \in Contents \cup {<<" ">>}, catalog_ok \in CatalogOutcomes,
             service_ok \in BOOLEAN :
               GenerateEmbeddingCall(text, catalog_ok, service_ok)
       /\ UNCHANGED exceptVector
    \/ /\ Idle
       /\ \E doc_source \in DocSources, content \in Contents, concept_tag \in ConceptTags,
             catalog_ok \in CatalogOutcomes, service_ok \in BOOLEAN :
               StoreChunk(doc_source, content, concept_tag, catalog_ok, service_ok)
       /\ UNCHANGED exceptVector
    \/ /\ Idle
       /\ \E chunks \in ChunkLists : StoreChunksBatchBegin(chunks)
       /\ UNCHANGED exceptVector
    \/ /\ pending.active
       /\ \E i \in 1..MaxChunks, catalog_ok \in CatalogOutcomes, service_ok \in BOOLEAN :
               StoreChunksBatchEmbed(i, catalog_ok, service_ok)
       /\ UNCHANGED exceptVector
    \/ /\ pending.active
       \* the database fails no insert, or the last one of the batch
       /\ \E has_connect \in BOOLEAN, fails_at \in {0, Len(pending.chunks)} :
               StoreChunksBatchInsert(has_connect, fails_at)
       /\ UNCHANGED exceptVector
    \/ /\ Idle
       /\ \E concept_tag \in ConceptTags \cup {<<" ">>} :
             \E driver_rejects \in (IF HasNul(concept_tag) THEN BOOLEAN ELSE {FALSE}) :
               RetrieveChunksByConcept(concept_tag, driver_rejects)
       /\ UNCHANGED exceptVector
    \/ /\ Idle
       /\ \E query_text \in {<<"c">>, <<" ">>}, concept_filter \in {<<>>, <<"A", " ">>},
             catalog_ok \in CatalogOutcomes, service_ok \in BOOLEAN :
               SimilaritySearch(query_text, concept_filter, catalog_ok, service_ok)
       /\ UNCHANGED exceptVector

SpecVector == InitAll /\ [][NextVector]_vars

NextNavigation ==
    \/ \E user_id \in UserIds, concept_name \in ConceptNamesAsked :
            StartConcept(user_id, concept_name) /\ UNCHANGED exceptNavigation
    \/ \E user_id \in UserIds, concept_name \in ConceptNamesAsked, direct \in BOOLEAN :
            CompleteConcept(user_id, concept_name, direct) /\ UNCHANGED exceptNavigation

SpecNavigation == InitAll /\ [][NextNavigation]_vars

(* the owners of the best-effort side channels: Phase 1 with its notebook
   sync, caption_images, the screenshot tool *)
NextSide ==
    \/ \E ext \in Extensions, o \in UploadOutcomes, rm_ok \in BOOLEAN :
            Upload(ext, o, rm_ok) /\ UNCHANGED <<exceptSide, sideVars>>
    \/ \E t \in TaskIds : P1Begin(t) /\ UNCHANGED <<exceptSide, sideVars>>
    \/ \E t \in TaskIds : P1Extract(t) /\ UNCHANGED <<exceptSide, sideVars>>
    \/ \E t \in TaskIds, ok \in BOOLEAN : P1Sync(t, ok) /\ UNCHANGED <<exceptSide, sideVars>>
    \/ \E captions \in UNION {[1..n -> BoundCaptions] : n \in ImageIds} :
            BindImages(captions) /\ UNCHANGED <<docVars, exceptSide>>
    \/ CaptionImagesBegin /\ UNCHANGED <<docVars, exceptSide>>
    \/ \E vision_ok \in BOOLEAN : CaptionImagesNext(vision_ok) /\ UNCHANGED <<docVars, exceptSide>>
    \/ CaptionImagesCommit /\ UNCHANGED <<docVars, exceptSide>>
    \/ \E captured, analyze, vision_ok \in BOOLEAN :
            AgentScreenshotTool(captured, analyze, vision_ok) /\ UNCHANGED <<docVars, exceptSide>>

SpecSide == InitAll /\ [][NextSide]_vars

NextTutor ==
    \/ GetActiveIntelCall /\ UNCHANGED exceptTutor
    \/ \E token \in ResponseTokens : GetCompletion(token) /\ UNCHANGED exceptTutor
    \/ \E llm_ok \in BOOLEAN : GetActiveIntelReturn(llm_ok) /\ UNCHANGED exceptTutor

SpecTutor == InitAll /\ [][NextTutor]_vars

NextEmbeds ==
    \/ \E kind \in ChunkKinds : EmbedBatchChunk(kind) /\ UNCHANGED exceptEmbeds
    \/ \E embedding_concurrency \in EmbeddingConcurrencies :
          EmbedBatchCall(embedding_concurrency) /\ UNCHANGED exceptEmbeds
    \/ \E i \in 1..MaxGather : EmbedAcquire(i) /\ UNCHANGED exceptEmbeds
    \/ \E i \in 1..MaxGather, service_ok \in BOOLEAN :
          EmbedComplete(i, service_ok) /\ UNCHANGED exceptEmbeds
    \/ EmbedBatchNext /\ UNCHANGED exceptEmbeds

NextQuiz ==
    \/ \E answer_key \in AnswerKeys : GenerateQuizItem(answer_key) /\ UNCHANGED exceptQuiz
    \/ \E session_id \in QuizSessionIds, quiz_item_id \in 1..(MaxItems + 1),
          transcript \in Transcripts, answer_text \in AnswerTexts,
          outcome \in GradingOutcomes :
          GradeDocumentQuizItem(session_id, quiz_item_id, transcript, answer_text, outcome)
          /\ UNCHANGED exceptQuiz

SpecQuiz == InitAll /\ [][NextQuiz]_vars

NextLink ==
    \/ \E has_video_id \in BOOLEAN : IngestYoutube(has_video_id) /\ UNCHANGED exceptLink
    \/ \E has_video_id \in BOOLEAN : IngestLink(has_video_id) /\ UNCHANGED exceptLink
    \/ \E outcome \in TranscriptOutcomes : FetchTranscript(outcome) /\ UNCHANGED exceptLink
    \/ \E saved \in BOOLEAN : SaveTranscript(saved) /\ UNCHANGED exceptLink
    \/ \E saved \in BOOLEAN : SaveTextDocument(saved) /\ UNCHANGED exceptLink
    \/ \E processed \in BOOLEAN : ProcessVirtualDocument(processed) /\ UNCHANGED exceptLink

SpecLink == InitAll /\ [][NextLink]_vars

SpecEmbeds == InitAll /\ [][NextEmbeds]_vars

(* the event loop runs every task that can run, and every request to the
   embedding service is answered or fails *)
SpecEmbedsFair ==
    /\ SpecEmbeds
    /\ \A i \in 1..MaxGather :
         /\ WF_vars(EmbedAcquire(i) /\ UNCHANGED exceptEmbeds)
         /\ WF_vars((\E service_ok \in BOOLEAN : EmbedComplete(i, service_ok))
                      /\ UNCHANGED exceptEmbeds)

-----------------------------------------------------------------------------
(* Document lifecycle: properties *)

Phase1Tasks == {t \in TaskIds : tasks[t].kind = "p1"}

ByReprocess(l) ==
    l.op = "reprocess" \/ (l.op = "p1_begin" /\ l.origin = "reprocess")

LifecycleChange(a, b, l) ==
    \/ a = "processing" /\ b = "extracted"
    \/ a = "extracted" /\ b = "ingesting"
    \/ a = "ingesting" /\ b = "completed"
    \/ b = "failed"
    \/ b = "processing" /\ ByReprocess(l)

\* C1: every change of a document's status is processing -> extracted,
\* extracted -> ingesting, ingesting -> completed, any -> failed, or
\* any -> processing caused by a reprocess.
C1_StatusLifecycle ==
    [][(doc.exists /\ doc'.exists /\ doc'.status # doc.status)
          => LifecycleChange(doc.status, doc'.status, last')]_vars

SynthesizeAccepted == last.op = "synthesize" /\ resp.code = 200

Extracted(d) ==
    /\ d.status = "extracted"
    /\ d.ingestion_step = "ready_for_synthesis"
    /\ d.ingestion_progress = 100

TaskFailed == last.op \in {"p1_convert_error", "p1_critical", "p2_failed"}

HoldsErrorText(step, e) == step \in {e, FailedStep(e), ExtractionFailedText(e)}

UploadFailedAfterSave ==
    last.op = "upload" /\ resp.code = 500 /\ doc.exists

-----------------------------------------------------------------------------
(* Calibration settings: properties *)

Patched == req.op = "patch" /\ us.exists

StoredFor(lo, hi, supplied, stored) ==
    IsSome(supplied) =>
        /\ Val(supplied) < lo => stored = lo
        /\ Val(supplied) > hi => stored = hi
        /\ (Val(supplied) >= lo /\ Val(supplied) <= hi) => stored = Val(supplied)

\* C5: after any sequence of PATCH requests every calibration column is within
\* its range (target_retention 0.70..0.97 in hundredths, daily_new_limit
\* 1..100, focus_duration 5..120, break_duration 1..30), and a supplied value
\* below or above the range is stored as the nearest boundary, an in-range
\* value as itself.
C5_StoredClamped ==
    /\ us.exists =>
        /\ us.target_retention >= 70 /\ us.target_retention <= 97
        /\ us.daily_new_limit >= 1 /\ us.daily_new_limit <= 100
        /\ us.focus_duration >= 5 /\ us.focus_duration <= 120
        /\ us.break_duration >= 1 /\ us.break_duration <= 30
    /\ Patched =>
        /\ StoredFor(70, 97, req.target_retention, us.target_retention)
        /\ StoredFor(1, 100, req.daily_new_limit, us.daily_new_limit)
        /\ StoredFor(5, 120, req.focus_duration, us.focus_duration)
        /\ StoredFor(1, 30, req.break_duration, us.break_duration)

\* C5 (case reached): a request carried target_retention 0.50 and the row
\* holds the lower boundary 0.70.
C5_BelowRangeStoredAtBoundary ==
    /\ Patched
    /\ req.target_retention = Some(50)
    /\ us.target_retention = 70

AsDict(config) == IF config = None THEN EmptyDict ELSE Val(config)

SuppliedKeys == IF IsSome(req.llm_config) THEN DOMAIN Val(req.llm_config) ELSE {}

EmbeddingSupplied ==
    \/ IsSome(req.embedding_provider)
    \/ IsSome(req.embedding_model)
    \/ IsSome(req.embedding_api_key)
    \/ IsSome(req.embedding_base_url)

\* C6: after a PATCH request every column other than llm_config whose field
\* the request left absent holds the value it held before the request, and
\* every key the stored llm_config had before the request holds its previous
\* value unless the request's llm_config supplies that key or the key is
\* "embeddings" and the request supplies an embedding field.
C6_AbsentFieldsKept ==
    Patched =>
        /\ \A f \in (DOMAIN us_prev) \ {"llm_config"} :
              (f \notin PatchFields \/ req[f] = None) => us[f] = us_prev[f]
        /\ \A k \in DOMAIN AsDict(us_prev.llm_config) :
              (k \notin SuppliedKeys /\ ~(k = "embeddings" /\ EmbeddingSupplied))
                  => /\ k \in DOMAIN AsDict(us.llm_config)
                     /\ AsDict(us.llm_config)[k] = AsDict(us_prev.llm_config)[k]

\* C6 (case reached): the stored llm_config had the key "global", the request
\* supplied the key "tutor" alone, and "global" is still stored.
C6_UnsuppliedKeyKept ==
    /\ Patched
    /\ "global" \in DOMAIN AsDict(us_prev.llm_config)
    /\ SuppliedKeys = {"tutor"}
    /\ "global" \in DOMAIN AsDict(us.llm_config)
    /\ AsDict(us.llm_config)["tutor"] = "t1"

-----------------------------------------------------------------------------
(* Agent settings: properties *)

\* C9: after POST /api/goals/agent/settings every notification, biometric,
\* Fitbit, timezone and digest column whose field the request left absent
\* holds its previous value, except email_daily_reminder, which holds the
\* explicit value or, when absent, check_in_frequency_hours > 0 (the schema's
\* frequency when that too is absent).
C9_AbsentColumnsUntouched ==
    (req.op = "agent") =>
        /\ \A f \in AgentFields \ {"check_in_frequency_hours", "email_daily_reminder"} :
              req[f] = None => us[f] = us_prev[f]
        /\ us.email_daily_reminder =
              IF IsSome(req.email_daily_reminder) THEN Val(req.email_daily_reminder)
              ELSE IF IsSome(req.check_in_frequency_hours)
                   THEN Val(req.check_in_frequency_hours) > 0
                   ELSE TRUE

-----------------------------------------------------------------------------
(* Goals: properties *)

\* C7: over every goal or focus-session operation, a goal that exists before
\* and after the operation has logged_hours at least what it was.
C7_LoggedHoursMonotonic ==
    [][\A g \in GoalIds :
          (goals[g].state = "live" /\ goals'[g].state = "live")
              => goals'[g].logged >= goals[g].logged]_vars

Responded == goal_resp # NoGoalResp

HoursRemaining == goal_resp.target - goal_resp.logged

\* C8 (as stated): in a goal response with a deadline and target_hours > 0,
\* is_on_track is true exactly when (target_hours - logged_hours) /
\* days_remaining <= 2.0, whatever the sign of days_remaining (the quotient is
\* left unconstrained at days_remaining = 0); with no deadline or
\* target_hours <= 0, is_on_track is true.
C8_OnTrackIffPace ==
    Responded =>
        IF IsSome(goal_resp.deadline) /\ goal_resp.target > 0
        THEN LET days == Val(goal_resp.days_remaining)
             IN /\ days > 0 => (goal_resp.is_on_track <=> HoursRemaining <= 120 * days)
                /\ days < 0 => (goal_resp.is_on_track <=> HoursRemaining >= 120 * days)
        ELSE goal_resp.is_on_track

\* C8 (amended): in a goal response with a deadline, target_hours > 0 and
\* days_remaining > 0, is_on_track is true exactly when (target_hours -
\* logged_hours) / days_remaining <= 2.0; in every other response (no
\* deadline, target_hours <= 0, or days_remaining <= 0) is_on_track is true.
C8_OnTrackIffPaceBeforeDeadline ==
    Responded =>
        IF /\ IsSome(goal_resp.deadline)
           /\ goal_resp.target > 0
           /\ Val(goal_resp.days_remaining) > 0
        THEN goal_resp.is_on_track <=> HoursRemaining <= 120 * Val(goal_resp.days_remaining)
        ELSE goal_resp.is_on_track

\* C8 (case reached): a response for a goal one day before its deadline with
\* ten hours remaining reports is_on_track false.
C8_BehindPace ==
    /\ Responded
    /\ goal_resp.days_remaining = Some(1)
    /\ HoursRemaining = 600
    /\ ~goal_resp.is_on_track

-----------------------------------------------------------------------------
(* Chunking: properties *)

ChunksVia(via) == {i \in DOMAIN chunked.chunks : chunked.chunks[i].via = via}

\* C11: every chunk chunk_content returns, for any text and any chunk size
\* S >= 1, has at most 2*S characters, whether paragraph accumulation,
\* sentence accumulation or the forced split of a sentence emitted it.
C11_ChunkAtMostTwiceSize ==
    chunked.called =>
        \A i \in DOMAIN chunked.chunks :
            Len(chunked.chunks[i].content) <= 2 * chunked.chunk_size

\* C11 (case reached): the bound is attained: paragraph accumulation joined
\* two paragraphs into a chunk of exactly 2*S characters.
C11_BoundAttained ==
    /\ chunked.called
    /\ \E i \in ChunksVia("paragraphs") :
          Len(chunked.chunks[i].content) = 2 * chunked.chunk_size

-----------------------------------------------------------------------------
(* Conversion: properties *)

NotFound == Raise("File not found")

InvalidInput == Raise("Unsupported file format")

-----------------------------------------------------------------------------
(* Ingestion engine: properties *)

Logged(event) == \E i \in DOMAIN engine.log : engine.log[i] = event

ResponseRejected ==
    /\ engine.pc = "raised"
    /\ engine.error \in {"LLM returned invalid JSON", "validation error"}

EmptyInputRejected ==
    /\ engine.pc = "raised"
    /\ engine.error = "Cannot extract graph structure from empty content"

\* C13 (as stated): when the LLM response is not valid JSON or does not
\* conform to GraphSchema, the operation (extract_graph_structure or
\* process_document_complete) raises with no database write attempted, chunk
\* rows included; empty or whitespace-only input raises with no LLM call made.
C13_NoWriteBeforeRejection ==
    /\ ResponseRejected => (~Logged("chunk_write") /\ ~Logged("graph_write"))
    /\ EmptyInputRejected => ~Logged("llm_call")

\* C13 (amended): when the LLM response is not valid JSON or does not conform
\* to GraphSchema, the operation raises with no concept or prerequisite write
\* attempted (in process_document_complete the chunk rows have been written
\* before); empty or whitespace-only input raises with no LLM call made.
C13_NoGraphWriteBeforeRejection ==
    /\ ResponseRejected => ~Logged("graph_write")
    /\ Logged("graph_write") =>
          /\ engine.response.json
          /\ ConformsToGraphSchema(engine.response.data)
    /\ EmptyInputRejected => ~Logged("llm_call")
    /\ Logged("llm_call") => Strip(engine.markdown) # <<>>

\* C13 (case reached): the pipeline raised on a response with a weight above
\* 1.0 after the chunk rows were written and before any graph write.
C13_RejectedAfterChunks ==
    /\ engine.op = "process_document_complete"
    /\ engine.pc = "raised"
    /\ engine.error = "validation error"
    /\ engine.response = Json([concepts |-> List(<<<<"a">>, <<"b">>>>),
                               prerequisites |-> List(<<Link(<<"a">>, <<"b">>, 11)>>)])
    /\ engine.log = <<"chunk_write", "llm_call">>

Endpoints(schema) ==
    {schema.prerequisites[i].source_concept : i \in DOMAIN schema.prerequisites}
        \cup {schema.prerequisites[i].target_concept : i \in DOMAIN schema.prerequisites}

ValidationRan ==
    /\ engine.op = "process_document_complete"
    /\ engine.pc \in {"store", "done"} \/ engine.error = "graph validation failed"

\* C14: the pipeline writes concepts and prerequisite edges to the graph store
\* only when validate_graph_structure returned true for the schema, it returns
\* true exactly when every prerequisite endpoint is in the schema's concept
\* list, and a schema with a prerequisite naming an unknown concept ends the
\* pipeline with no graph write.
C14_GraphWriteOnlyIfValid ==
    /\ Logged("graph_write") => engine.validated
    /\ ValidationRan =>
          (engine.validated <=> Endpoints(engine.schema) \subseteq Range(engine.schema.concepts))
    /\ (ValidationRan /\ ~(Endpoints(engine.schema) \subseteq Range(engine.schema.concepts)))
          => (engine.pc = "raised" /\ ~Logged("graph_write"))

\* C14 (case reached): the response named concepts a and b and a prerequisite
\* from a to the unknown x; the pipeline raised after the chunk write and the
\* LLM call, with no graph write.
C14_DanglingTargetRejected ==
    /\ engine.error = "graph validation failed"
    /\ engine.schema.concepts = <<<<"a">>, <<"b">>>>
    /\ engine.schema.prerequisites = <<Link(<<"a">>, <<"x">>, 10)>>
    /\ engine.log = <<"chunk_write", "llm_call">>

-----------------------------------------------------------------------------
(* Graph storage: properties *)

\* C15: at every moment of any interleaving of store_concepts_batch calls,
\* repeated calls and duplicate names included, the graph store holds exactly
\* one Concept node under each normalized name ever merged and none under any
\* other name, and a call that has returned has returned the number of nodes
\* of its input, whatever the number of distinct names among them.
C15_OneNodePerName ==
    /\ DOMAIN graph = ever_stored
    /\ \A name \in ever_stored : graph[name] = 1
    /\ \A c \in Callers : batch[c].names \subseteq ever_stored
    /\ \A c \in Callers :
          batch[c].pc = "returned" => batch[c].returned = batch[c].size

\* C15 (case reached): two concurrent callers merged "a" and "b" between them;
\* the first call held the same normalized name twice and returned 2, the
\* second is still merging, and the store has the single nodes "a" and "b".
C15_DuplicatesAcrossCallers ==
    /\ batch[1].pc = "returned"
    /\ batch[1].returned = 2
    /\ batch[1].names = {<<"a">>}
    /\ batch[2].pc = "merging"
    /\ batch[2].names = {<<"a">>, <<"b">>}
    /\ graph = (<<"a">> :> 1) @@ (<<"b">> :> 1)

-----------------------------------------------------------------------------
(* Vector storage: properties *)

WithoutNul(text) == SelectSeq(text, LAMBDA c : c # "NUL")

(* store_chunk has just returned an id for a tag that no other row carries,
   and the next call is retrieve_chunks_by_concept with a case or
   surrounding-whitespace variant of that tag *)
StoredThenRetrieved ==
    /\ call.op = "store_chunk"
    /\ call.raised = "none"
    /\ \A r \in DOMAIN rows :
          rows[r].id # call.ids[1] =>
              rows[r].concept_tag \notin {LowerText(Strip(call.concept_tag)),
                                          WithoutNul(LowerText(Strip(call.concept_tag)))}
    /\ call'.op = "retrieve_chunks_by_concept"
    /\ LowerText(Strip(call'.concept_tag)) = LowerText(Strip(call.concept_tag))

\* C16 (as claimed): store_chunk into a store with no chunk for the tag,
\* followed by retrieve_chunks_by_concept with any case or whitespace variant
\* of the tag, returns exactly one chunk: the trimmed doc_source and content,
\* the trimmed lower-cased tag, the id store_chunk returned.
C16_RoundTrip ==
    [][StoredThenRetrieved =>
          /\ call'.raised = "none"
          /\ call'.result = << [id |-> call.ids[1],
                                doc_source |-> Strip(call.doc_source),
                                content |-> Strip(call.content),
                                concept_tag |-> LowerText(Strip(call.concept_tag))] >>]_vars

\* C16 (amended): the chunk returned holds the trimmed doc_source and content
\* with their null bytes removed, under the trimmed lower-cased tag and the id
\* store_chunk returned, when the tag has no null byte; a tag with a null byte
\* is stored without it, and the retrieval by a variant of the tag as given
\* returns no chunk or fails.
C16_RoundTripSanitized ==
    [][StoredThenRetrieved =>
          IF HasNul(call.concept_tag)
          THEN call'.raised = "ValueError" \/ call'.result = <<>>
          ELSE /\ call'.raised = "none"
               /\ call'.result = << [id |-> call.ids[1],
                                     doc_source |-> WithoutNul(Strip(call.doc_source)),
                                     content |-> WithoutNul(Strip(call.content)),
                                     concept_tag |-> LowerText(Strip(call.concept_tag))] >>]_vars

\* C16 (case reached): a chunk whose content had a null byte was stored second,
\* next to a chunk of another tag, and the retrieval by the upper-case,
\* space-padded tag returned it alone, its content without the null byte.
C16_RetrievedByVariant ==
    /\ call.op = "retrieve_chunks_by_concept"
    /\ call.concept_tag = <<"A", " ">>
    /\ Len(rows) = 2
    /\ rows[1].concept_tag = <<"b">>
    /\ rows[2].embedding.of = <<"c", "NUL">>
    /\ call.result = << [id |-> 2, doc_source |-> <<"d">>, content |-> <<"c">>,
                         concept_tag |-> <<"a">>] >>

\* C17: a store_chunks_batch call that returned has returned one id per input
\* chunk, the ids distinct and in input order, and the row of the i-th id holds
\* the i-th chunk's content and the embedding generated from that content,
\* whatever the order in which the embedding calls completed.
C17_BatchIdsInInputOrder ==
    (call.op = "store_chunks_batch" /\ call.raised = "none") =>
        /\ Len(call.ids) = Len(call.chunks)
        /\ \A i, j \in DOMAIN call.ids : i < j => call.ids[i] < call.ids[j]
        /\ \A i \in DOMAIN call.chunks :
              \E r \in DOMAIN rows :
                  /\ rows[r].id = call.ids[i]
                  /\ rows[r].content = WithoutNul(Strip(call.chunks[i].content))
                  /\ rows[r].embedding.of = call.chunks[i].content

\* C17 (case reached): a batch of two chunks of different contents returned
\* its two ids after the second chunk's embedding had arrived before the
\* first's.
C17_SecondEmbeddingFirst ==
    /\ call.op = "store_chunks_batch"
    /\ call.raised = "none"
    /\ call.order = <<2, 1>>
    /\ call.chunks[1].content # call.chunks[2].content
    /\ call.ids = <<1, 2>>

(* the column has a fixed width and the embedding service returned, during the
   last call, a vector of another length *)
WrongLengthReturned ==
    /\ call.op \in {"generate_embedding", "store_chunk", "store_chunks_batch",
                    "similarity_search"}
    /\ column_width # 0
    /\ call.dim # 0
    /\ call.dim # column_width

\* C18 (as claimed): with a fixed-width column and a vector of another length
\* returned by the embedding service, each of generate_embedding, store_chunk,
\* store_chunks_batch and similarity_search raises
\* EmbeddingDimensionMismatchError, and the call has inserted no row.
C18_MismatchRaisesTyped ==
    WrongLengthReturned =>
        /\ call.raised = "EmbeddingDimensionMismatchError"
        /\ call.inserted = 0

-----------------------------------------------------------------------------
(* Progress tracking: properties *)

Rank(state) == CASE state = "NOT_STARTED" -> 0 [] state = "IN_PROGRESS" -> 1 [] OTHER -> 2

(* the request just answered was a start on a concept the user had completed
   or whose prerequisites the user had not completed *)
StartNotAllowed ==
    /\ nav'.op = "start_concept"
    /\ \/ user_progress[nav'.user_id][nav'.concept_name] = "COMPLETED"
       \/ ~PrerequisitesMet(user_progress[nav'.user_id], nav'.concept_name)

\* C19: under every sequence of POST /progress/start and /progress/complete no
\* concept of any user moves back along NOT_STARTED, IN_PROGRESS, COMPLETED; a
\* start on a completed concept or with unmet prerequisites is answered 400
\* and leaves every state as it was, and so does every start answered 400.
C19_ProgressOnlyForward ==
    [][/\ \A u \in UserIds, c \in ConceptNamesAsked :
              Rank(user_progress'[u][c]) >= Rank(user_progress[u][c])
       /\ StartNotAllowed => (nav'.code = 400 /\ user_progress' = user_progress)
       /\ (nav'.op = "start_concept" /\ nav'.code = 400) => user_progress' = user_progress]_vars

\* C19 (case reached): user 1 completed "a", started "b", and a further start
\* on "a" was answered 400.
C19_StartOnCompletedRejected ==
    /\ nav = [op |-> "start_concept", user_id |-> 1, concept_name |-> "a", code |-> 400]
    /\ user_progress[1]["a"] = "COMPLETED"
    /\ user_progress[1]["b"] = "IN_PROGRESS"

-----------------------------------------------------------------------------
(* Best-effort side channels: properties *)

(* the notebook sync of the Phase 1 task that wrote the row last has failed,
   and the row is extracted *)
SyncFailureKeepsExtracted ==
    (last.op = "p1_synced" /\ last.err = "sync failed" /\ writer = last.task /\ doc.exists)
        => doc.status = "extracted"

(* caption_images has returned: every image lacking a caption was tried, the
   images after a failed one included, and the captions obtained are committed *)
CaptionFailureKeepsLoop ==
    captioning.pc = "done" =>
        /\ \A i \in DOMAIN images : images[i].committed = images[i].caption
        /\ \A i \in captioning.tried \ captioning.failed : images[i].committed = "described"
        /\ \A i \in DOMAIN images : images[i].committed \in {"", "Extracted Image"}
                                   => i \in captioning.failed

(* the vision analysis of the captured screenshot has failed, and the answer
   carries the image URL and the memory entry is saved *)
AnalysisFailureKeepsAnswer ==
    shot.vision_failed =>
        /\ shot.code = 200
        /\ shot.image_url # ""
        /\ shot.recorded

\* C20 (as claimed): a failed notebook sync leaves Phase 1 ending extracted; a
\* failed caption leaves caption_images going through the remaining images
\* and committing; a failed vision analysis leaves POST /agent/tools/screenshot
\* returning the image URL and recording the episodic memory entry.
C20_SideChannelFailureContained ==
    /\ SyncFailureKeepsExtracted
    /\ CaptionFailureKeepsLoop
    /\ AnalysisFailureKeepsAnswer

-----------------------------------------------------------------------------
(* Concept tutor: properties *)

\* C21 (as claimed): get_active_intel returns the analogy, insight and
\* question parsed from the response whenever the response holds a parseable
\* JSON object with the three keys, bare or inside a code fence, and returns
\* the fallback only after an LLM error, a parse failure or an empty response.
C21_ParsedIntelReturned ==
    /\ (intel.llm = "returned" /\ intel.parsed /\ intel.keys # {}) => intel.returned = "parsed"
    /\ intel.returned = "fallback" =>
          (intel.llm = "raised" \/ ~intel.parsed \/ intel.response = <<>>)

-----------------------------------------------------------------------------
(* Batch embedding: properties *)

InFlightBounded == InFlight(embeds) <= Max(1, embeds.limit)

Called == embeds.state # "idle"

Issued(i) == i \in DOMAIN embeds.issued /\ embeds.issued[i]

\* C22 (as claimed): during one store_chunks_batch call at most
\* max(1, embedding_concurrency) embedding requests are in flight, and the
\* embedding request of every chunk of the call is eventually issued.
C22_BoundedAndAllIssued ==
    /\ []InFlightBounded
    /\ \A i \in 1..MaxGather :
         (Called /\ i \in DOMAIN embeds.kinds) ~> Issued(i)

\* C22 (amended): at most max(1, embedding_concurrency) embedding requests are
\* in flight, and once the tasks are gathered, which takes a list with no empty
\* field, the request of every chunk whose content is not blank is eventually
\* issued.
C22_BoundedAndTextIssued ==
    /\ []InFlightBounded
    /\ \A i \in 1..MaxGather :
         (i \in DOMAIN embeds.pc /\ embeds.kinds[i] = "text") ~> Issued(i)

(* more chunks than the semaphore admits: the semaphore is full and a task
   waits *)
C22_TaskWaitsForSlot ==
    /\ InFlight(embeds) = embeds.limit
    /\ embeds.limit = EmbeddingConcurrencyDefault
    /\ \E i \in DOMAIN embeds.pc : embeds.pc[i] = "created"

-----------------------------------------------------------------------------
(* Quiz grading: properties *)

(* the first five words of the lower-cased answer key, and whether one of
   them occurs in the lower-cased response *)
KeyWordOccurs(answer_key, response_text) ==
    LET words == Words(LowerText(Join(answer_key, <<" ">>))) IN
    \E i \in 1..Len(words) :
        /\ i <= 5
        /\ Contains(LowerText(response_text), words[i])

Graded == quiz'.last # quiz.last \/ quiz'.attempts # quiz.attempts

-----------------------------------------------------------------------------
(* Document conversion: the text returned *)

\* C24 (as claimed): for every existing file with a supported extension the
\* markdown convert_to_markdown returns, NUL characters removed, is neither
\* empty nor white space only.
C24_MarkdownNeverBlank ==
    (converted.called /\ converted.result.ok) => Strip(converted.markdown) # <<>>

-----------------------------------------------------------------------------
(* Document lifecycle: the fields that go with a status *)

\* C25 (as claimed): in every reachable state a document whose status is
\* completed has ingestion_step complete and ingestion_progress 100, under
\* every interleaving of the Phase 2 tasks and their progress callbacks.
C25_CompletedIsComplete ==
    (doc.exists /\ doc.status = "completed") =>
        (doc.ingestion_step = "complete" /\ doc.ingestion_progress = 100)

\* C26 (as claimed): in every reachable state a document whose status is
\* extracted has a non-empty extracted_text, so that a synthesize request on
\* an extracted document is never answered 400; this includes a document
\* whose stored file is missing when Phase 1 runs.
C26_ExtractedHasText ==
    (doc.exists /\ doc.status = "extracted") => ~Falsy(doc.extracted_text)

-----------------------------------------------------------------------------
(* Focus sessions: the hours a session adds to its goal *)

EndServed == nends' = nends + 1

\* C27 (as claimed): each focus session adds its duration to its goal's
\* logged_hours at most once: the first end of a session linked to a goal adds
\* duration_minutes/60 to that goal alone, and an end of a session already
\* ended, or of a session started with the goal id "none", changes no goal.
C27_SessionCountedOnce ==
    [][EndServed =>
         IF sessions' = sessions THEN goals' = goals
         ELSE \A s \in SessionIds :
                sessions'[s] # sessions[s] =>
                   LET g == sessions[s].goal_id IN
                   IF g = 0 \/ goals[g].state # "live" THEN goals' = goals
                   ELSE \E m \in FocusSessionEnd :
                           goals' = [goals EXCEPT ![g].logged = @ + m]]_vars

-----------------------------------------------------------------------------
(* Vector storage: what a stored row holds, and the rows of a failed batch *)

Blank(text) == Strip(text) = <<>>

\* C28 (as claimed): after any sequence of store_chunk and store_chunks_batch
\* calls every stored row has a doc_source, a content and a concept_tag that
\* are not empty after trimming; an input with an empty or white-space-only
\* field is rejected by both operations and inserts no row.
C28_StoredFieldsNotBlank ==
    /\ \A i \in DOMAIN rows :
          ~Blank(rows[i].doc_source) /\ ~Blank(rows[i].content) /\ ~Blank(rows[i].concept_tag)
    /\ (call.op = "store_chunk"
           /\ (Blank(call.doc_source) \/ Blank(call.content) \/ Blank(call.concept_tag)))
          => (call.raised # "none" /\ call.inserted = 0)
    /\ (call.op = "store_chunks_batch"
           /\ \E i \in DOMAIN call.chunks :
                 \/ Blank(call.chunks[i].doc_source)
                 \/ Blank(call.chunks[i].content)
                 \/ Blank(call.chunks[i].concept_tag))
          => (call.raised # "none" /\ call.inserted = 0)

BatchRaised ==
    /\ call' # call
    /\ call'.op = "store_chunks_batch"
    /\ call'.raised # "none"

EmbeddingsBeforeInserts ==
    (pending.active /\ rows' # rows) =>
        \A i \in DOMAIN pending.chunks : pending.done[i] # NoEmbedding

\* C30 (as claimed): store_chunks_batch is all-or-nothing: when the validation
\* of a chunk, the generation of an embedding or an insert fails, the call
\* raises and no row of the batch remains stored; every embedding is generated
\* before the first insert.
C30_BatchAllOrNothing ==
    [][(BatchRaised => rows' = rows) /\ EmbeddingsBeforeInserts]_vars

\* C30 (amended): when the validation of a chunk or the generation of an
\* embedding fails, or an insert fails on a connection that db_conn.connect()
\* gave, the call raises and no row of the batch remains stored; when an
\* insert fails on the per-row fallback, the call raises and the rows inserted
\* before it remain; every embedding is generated before the first insert.
C30_BatchAllOrNothingOnConnection ==
    [][/\ BatchRaised =>
            IF call'.failed_insert # <<>> /\ ~call'.failed_insert[1]
            THEN /\ Len(rows') = Len(rows) + call'.failed_insert[2] - 1
                 /\ SubSeq(rows', 1, Len(rows)) = rows
            ELSE rows' = rows
       /\ EmbeddingsBeforeInserts]_vars

(* the second insert of a batch failed on a connection, and no row of the
   batch is stored *)
C30_SecondInsertRolledBack ==
    /\ call.op = "store_chunks_batch"
    /\ call.raised = "ValueError"
    /\ call.failed_insert = <<TRUE, 2>>
    /\ call.inserted = 0
    /\ rows = <<>>

-----------------------------------------------------------------------------
(* Link ingestion: the rows of a request *)

RowsOfRequest(r) == {i \in DOMAIN link_req.docs : link_req.docs[i].request = r}

\* C29 (as claimed): one POST /youtube or POST /link request creates at most
\* one Document row, and once the request has returned, with a document or
\* with an error, no row it created is left in status processing.
C29_OneRowNoneLeftProcessing ==
    /\ \A r \in 1..link_req.served : Cardinality(RowsOfRequest(r)) <= 1
    /\ link_req.pc = "idle" =>
          \A i \in DOMAIN link_req.docs : link_req.docs[i].status # "processing"

=============================================================================
